---- MODULE Spec2Model ----
(***************************************************************************)
(* Compatibility scoring and recalculation scheduling of the tunemate      *)
(* backend: the match model (models/Match.js), the drain worker            *)
(* (workers/match-calculation.worker.js), the listen worker                *)
(* (workers/listen-events.worker.js) and the routes that change signals.   *)
(*                                                                         *)
(* Numbers.  Scores are held in hundredths of a point (the resolution of   *)
(* matches.match_score DECIMAL(5,2)); preference weights in halves (the    *)
(* listen durations of the model are multiples of 15 s, so every weight    *)
(* min(duration/30, 1) is a multiple of 0.5).  A similarity in [0,1] is    *)
(* held in thousandths, truncated.  User ids are numbered in the order of   *)
(* their id strings, so a < b is the comparison user1Id < user2Id.         *)
(***************************************************************************)
EXTENDS Integers, Sequences, FiniteSets, TLC

VARIABLES
  playCount,    \* user_music_history.play_count per (user, song); 0 = no row
  lastHour,     \* EXTRACT(HOUR FROM last_played) per (user, song)
  genreWeight,  \* user_music_preferences.preference_weight per (user, genre); NoRow = no row
  pending,      \* the Redis set match:recalculate
  drainQueue,   \* number of jobs waiting in match-calculation-queue
  drain,        \* the drain job the match worker is running (concurrency 1)
  listenJobs,   \* listen jobs the listen worker is running
  ledger,       \* rows of the matches table
  cache,        \* Redis keys match:score:<x>:<y>
  request,      \* the Match.getPotentialMatches call in progress
  matchActions, \* rows of the user_match_actions table
  statusCall,   \* per user, the Match.updateStatus call in progress
  profiles,     \* rows of users, user_locations and user_preferences, per user
  otherHistory, \* per user, the songs outside Songs with a user_music_history row
  recCache,     \* Redis keys recommendations:songs:<u> and recommendations:users:<u>
  rec,          \* the last recommendation exchange: the request and its response
  hist          \* history of the run, read by the properties only

vars == <<playCount, lastHour, genreWeight, pending, drainQueue, drain,
          listenJobs, ledger, cache, request, matchActions, statusCall, profiles,
          otherHistory, recCache, rec, hist>>

\* the state that listening, scoring and the drain leave alone
restVars == <<matchActions, statusCall, profiles, otherHistory, rec>>
sideVars == <<restVars, recCache>>

(***************************************************************************)
(* The world of the model.                                                 *)
(***************************************************************************)
Users == {1, 2, 3}
Songs == {1, 2, 3, 4, 5}
Genres == {"rock", "jazz"}
Hours == {9, 21}

NoRow == -1
NoGenre == "none"
NoYear == 0

\* The songs table.  primary_artists is given as string_to_array(primary_artists, ',')
\* yields it: the raw tokens in order, <<name, leading blanks>>, so that "A, B" is
\* <<<<"A", 0>>, <<"B", 1>>>>.  A NULL or empty credit string has no token.
SongTable ==
  [s \in Songs |->
     CASE s = 1 -> [primary_artists |-> << <<"A", 0>>, <<"B", 1>> >>, genre |-> "rock", release_year |-> 1995]
       [] s = 2 -> [primary_artists |-> << <<"B", 0>> >>, genre |-> "jazz", release_year |-> 2003]
       [] s = 3 -> [primary_artists |-> << >>, genre |-> NoGenre, release_year |-> NoYear]
       [] s = 4 -> [primary_artists |-> << <<"C", 0>> >>, genre |-> "rock", release_year |-> 1998]
       [] OTHER -> [primary_artists |-> << <<"A", 0>> >>, genre |-> "jazz", release_year |-> 2010]]

\* users, user_locations and user_preferences.  A preferred_gender of "any" and a
\* min_age, max_age or max_distance of NoRow are NULL columns.  position is the place of
\* the user on one meridian, in km, so that the great-circle distance of two users
\* is the difference of their positions.
UserTable ==
  [u \in Users |->
     CASE u = 1 -> [gender |-> "f", age |-> 25, position |-> 0, has_location |-> TRUE,
                    has_prefs |-> TRUE, preferred_gender |-> "any", min_age |-> 18,
                    max_age |-> 100, max_distance |-> 100, is_visible |-> TRUE]
       [] u = 2 -> [gender |-> "m", age |-> 30, position |-> 10, has_location |-> TRUE,
                    has_prefs |-> TRUE, preferred_gender |-> "any", min_age |-> NoRow,
                    max_age |-> NoRow, max_distance |-> NoRow, is_visible |-> TRUE]
       [] OTHER -> [gender |-> "f", age |-> 40, position |-> 30, has_location |-> TRUE,
                    has_prefs |-> TRUE, preferred_gender |-> "any", min_age |-> 18,
                    max_age |-> 100, max_distance |-> 100, is_visible |-> FALSE]]

(***************************************************************************)
(* Arithmetic helpers.                                                     *)
(***************************************************************************)
Min(a, b) == IF a < b THEN a ELSE b
Max(a, b) == IF a > b THEN a ELSE b

RECURSIVE SumSet(_, _)
\* the sum of f[x] over the finite set S
SumSet(S, f) ==
  IF S = {} THEN 0
  ELSE LET x == CHOOSE y \in S : TRUE IN f[x] + SumSet(S \ {x}, f)

RECURSIVE Occurrences(_, _)
\* how often the token t occurs in the sequence seq
Occurrences(seq, t) ==
  IF seq = << >> THEN 0
  ELSE (IF Head(seq) = t THEN 1 ELSE 0) + Occurrences(Tail(seq), t)

\* hundredths: the scale of DECIMAL(5,2), in which the scores are held
PointScale == 100

\* thousandths: the scale in which a cosine similarity is held
CosineScale == 1000

RECURSIVE IntegerRoot(_, _, _)
\* the largest r in lo..hi with r * r <= n
IntegerRoot(n, lo, hi) ==
  IF lo >= hi THEN lo
  ELSE LET mid == (lo + hi + 1) \div 2
       IN IF mid * mid <= n THEN IntegerRoot(n, mid, hi) ELSE IntegerRoot(n, lo, mid - 1)

\* dotProduct / (sqrt(magnitude1) * sqrt(magnitude2)) in thousandths, truncated,
\* for sums of squares m1, m2 > 0: the root of dot^2 / (m1 * m2), the quotient
\* taken to six decimal places in two steps of three
CosineSimilarity(dot, m1, m2) ==
  LET num == dot * dot
      den == m1 * m2
      head == (num * CosineScale) \div den
      rest == (num * CosineScale) % den
      q == head * CosineScale + (rest * CosineScale) \div den
  IN IntegerRoot(q, 0, CosineScale)

\* weight * similarity, in hundredths of a point
CosineScore(weight, dot, m1, m2) ==
  (weight * PointScale * CosineSimilarity(dot, m1, m2)) \div CosineScale

(***************************************************************************)
(* calculateMatchScore: the five components, in hundredths of a point.     *)
(* The model's Match.calculateMatchScore (part_003) and the worker's       *)
(* calculateMatchScore run the same queries and arithmetic; they differ    *)
(* in the last line only.                                                  *)
(***************************************************************************)
SongMaxScore == 35
ArtistMaxScore == 25
GenreMaxScore == 20
PatternMaxScore == 10
YearMaxScore == 10

\* SELECT song_id, play_count FROM user_music_history WHERE user_id = $1
UserSongs(u) == {s \in Songs : playCount[u][s] > 0}

\* songQuery: the history rows of the two users joined on song_id
CommonSongs(a, b) == UserSongs(a) \cap UserSongs(b)

SongScore(a, b) ==
  LET n1 == Cardinality(UserSongs(a))
      n2 == Cardinality(UserSongs(b))
      c  == Cardinality(CommonSongs(a, b))
  IN IF n1 # 0 /\ n2 # 0
       THEN (SongMaxScore * PointScale * c) \div (n1 + n2 - c)
       ELSE 0

\* the rows of user1_artists / user2_artists: one per raw token, GROUP BY artist
ArtistRows(u) ==
  {SongTable[s].primary_artists[i] :
     <<s, i>> \in {p \in UserSongs(u) \X (1..2) : p[2] <= Len(SongTable[p[1]].primary_artists)}}

\* sum(umh.play_count) of one row of userN_artists
ArtistPlayCount(u, t) ==
  SumSet(UserSongs(u),
         [s \in Songs |-> playCount[u][s] * Occurrences(SongTable[s].primary_artists, t)])

Trim(t) == t[1]

\* user1_artists u1 JOIN user2_artists u2 ON trim(u1.artist) = trim(u2.artist)
CommonArtists(a, b) ==
  {p \in ArtistRows(a) \X ArtistRows(b) : Trim(p[1]) = Trim(p[2])}

TotalPlayCount(u) == SumSet(Songs, playCount[u])

\* a variant that divides the overlap by the first user's plays, not by the larger total
ArtistScoreByFirst(a, b) ==
  LET rows == CommonArtists(a, b)
      commonArtistWeight ==
        SumSet(rows, [p \in rows |-> Min(ArtistPlayCount(a, p[1]), ArtistPlayCount(b, p[2]))])
      p1 == TotalPlayCount(a)
      p2 == TotalPlayCount(b)
  IN IF p1 # 0 \/ p2 # 0
       THEN (ArtistMaxScore * PointScale * commonArtistWeight) \div (IF p1 # 0 THEN p1 ELSE p2)
       ELSE 0

ArtistScore(a, b) ==
  LET rows == CommonArtists(a, b)
      commonArtistWeight ==
        SumSet(rows, [p \in rows |-> Min(ArtistPlayCount(a, p[1]), ArtistPlayCount(b, p[2]))])
      p1 == TotalPlayCount(a)
      p2 == TotalPlayCount(b)
  IN IF p1 # 0 \/ p2 # 0
       THEN (ArtistMaxScore * PointScale * commonArtistWeight) \div Max(p1, p2)
       ELSE 0

\* COALESCE(uN.weight, 0) of genreQuery
GenreVector(u) == [g \in Genres |-> IF genreWeight[u][g] = NoRow THEN 0 ELSE genreWeight[u][g]]

GenreScore(a, b) ==
  LET v1 == GenreVector(a)
      v2 == GenreVector(b)
      dotProduct == SumSet(Genres, [g \in Genres |-> v1[g] * v2[g]])
      magnitude1 == SumSet(Genres, [g \in Genres |-> v1[g] * v1[g]])
      magnitude2 == SumSet(Genres, [g \in Genres |-> v2[g] * v2[g]])
  IN IF magnitude1 > 0 /\ magnitude2 > 0
       THEN CosineScore(GenreMaxScore, dotProduct, magnitude1, magnitude2)
       ELSE 0

\* patternQuery: COUNT(*) of the user's history rows per hour of last_played.
\* The code divides each vector by its total before the cosine; a positive
\* factor on either vector cancels in dot / (|v1| * |v2|), so the counts are
\* passed as they are.
PatternVector(u) == [h \in Hours |-> Cardinality({s \in UserSongs(u) : lastHour[u][s] = h})]

PatternScore(a, b) ==
  LET v1 == PatternVector(a)
      v2 == PatternVector(b)
      dotProduct == SumSet(Hours, [h \in Hours |-> v1[h] * v2[h]])
      magnitude1 == SumSet(Hours, [h \in Hours |-> v1[h] * v1[h]])
      magnitude2 == SumSet(Hours, [h \in Hours |-> v2[h] * v2[h]])
  IN IF magnitude1 > 0 /\ magnitude2 > 0
       THEN CosineScore(PatternMaxScore, dotProduct, magnitude1, magnitude2)
       ELSE 0

\* yearQuery: play counts per release decade, songs without release_year left out
Decade(year) == (year \div 10) * 10
Decades == {Decade(SongTable[s].release_year) : s \in {x \in Songs : SongTable[x].release_year # NoYear}}

DecadeVector(u) ==
  [d \in Decades |->
     SumSet({s \in UserSongs(u) : SongTable[s].release_year # NoYear
                                  /\ Decade(SongTable[s].release_year) = d},
            playCount[u])]

YearScore(a, b) ==
  LET v1 == DecadeVector(a)
      v2 == DecadeVector(b)
      dotProduct == SumSet(Decades, [d \in Decades |-> v1[d] * v2[d]])
      magnitude1 == SumSet(Decades, [d \in Decades |-> v1[d] * v1[d]])
      magnitude2 == SumSet(Decades, [d \in Decades |-> v2[d] * v2[d]])
  IN IF magnitude1 > 0 /\ magnitude2 > 0
       THEN CosineScore(YearMaxScore, dotProduct, magnitude1, magnitude2)
       ELSE 0

\* the five partial scores that calculateMatchScore adds to totalScore
ComponentScores(a, b) ==
  [songs |-> SongScore(a, b), artists |-> ArtistScore(a, b), genres |-> GenreScore(a, b),
   patterns |-> PatternScore(a, b), years |-> YearScore(a, b)]

\* finalScore = maxPossibleScore > 0 ? (totalScore / maxPossibleScore) * 100 : 0
Finalize(c) ==
  LET totalScore == c.songs + c.artists + c.genres + c.patterns + c.years
      maxPossibleScore == SongMaxScore + ArtistMaxScore + GenreMaxScore + PatternMaxScore + YearMaxScore
  IN IF maxPossibleScore > 0 THEN (totalScore * 100) \div maxPossibleScore ELSE 0

FinalScore(a, b) == Finalize(ComponentScores(a, b))

\* Math.round(x * 10) / 10 of a non-negative score
RoundOneDecimal(x) == ((x + 5) \div 10) * 10

\* Match.calculateMatchScore returns finalScore as computed
ModelCalculateMatchScore(a, b) == FinalScore(a, b)

\* the worker's calculateMatchScore returns it rounded to one decimal place
WorkerCalculateMatchScore(a, b) == RoundOneDecimal(FinalScore(a, b))

(***************************************************************************)
(* Bounds of the exploration.                                              *)
(***************************************************************************)
MaxCalls == 2             \* calls from outside: listen events, route calls, cache flushes
MaxInFlight == 1          \* listen jobs running at the same time
MaxFailures == 1          \* queries or Redis calls that throw

(***************************************************************************)
(* Candidate filter: potentialMatchesQuery.                                *)
(***************************************************************************)
DefaultMinAge == 18
DefaultMaxAge == 100
DefaultMaxDistance == 100
DrainLimit == 50

\* COALESCE(up2.min_age, 18) and the like: the default stands in for NULL
OrDefault(value, default) == IF value = NoRow THEN default ELSE value

\* userPrefs.min_age || 18 and the like: the default stands in for NULL and for 0
OrFalsy(value, default) == IF value = NoRow \/ value = 0 THEN default ELSE value

Distance(a, b) ==
  IF profiles[a].position > profiles[b].position
    THEN profiles[a].position - profiles[b].position
    ELSE profiles[b].position - profiles[a].position

\* the WHERE clause of the worker's potentialMatchesQuery, for requesting user u
\* and row c
Qualifies(u, c) ==
  /\ c # u
  /\ profiles[c].has_location
  /\ profiles[c].has_prefs
  /\ profiles[c].is_visible
  /\ (profiles[u].preferred_gender = "any" \/ profiles[c].gender = profiles[u].preferred_gender)
  /\ profiles[c].age >= OrDefault(profiles[u].min_age, DefaultMinAge)
  /\ profiles[c].age <= OrDefault(profiles[u].max_age, DefaultMaxAge)
  /\ Distance(u, c) <= OrDefault(profiles[u].max_distance, DefaultMaxDistance)

\* the worker's query: CROSS JOIN user_location and user_prefs of the requesting user
WorkerCandidates(u) ==
  IF profiles[u].has_location /\ profiles[u].has_prefs
    THEN {c \in Users : Qualifies(u, c)}
    ELSE {}

\* the WHERE clause of the model's potentialMatchesQuery with its parameters
\* $4 .. $7, for requesting user u and row c
ModelQualifies(u, c) ==
  /\ c # u
  /\ profiles[c].has_location
  /\ profiles[c].has_prefs
  /\ profiles[c].is_visible
  /\ (profiles[u].preferred_gender = "any" \/ profiles[c].gender = profiles[u].preferred_gender)
  /\ profiles[c].age >= OrFalsy(profiles[u].min_age, DefaultMinAge)
  /\ profiles[c].age <= OrFalsy(profiles[u].max_age, DefaultMaxAge)
  /\ Distance(u, c) <= OrFalsy(profiles[u].max_distance, DefaultMaxDistance)

\* the model's query, run once the preference row with a latitude was found
ModelCandidates(u) == {c \in Users : ModelQualifies(u, c)}

(***************************************************************************)
(* Score ledger and score cache.                                           *)
(***************************************************************************)
NoEntry == [value |-> << >>, fresh |-> FALSE]

\* matchScore.toString(): the decimal digits of the number
ScoreToString(score) == <<score \div PointScale, score % PointScale>>

\* parseFloat of such a string
ParseFloat(str) == str[1] * PointScale + str[2]

\* a variant that keeps the pair in the order of the arguments
CanonicalPairAsGiven(user1Id, user2Id) == <<user1Id, user2Id>>

\* const [smallerId, largerId] = user1Id < user2Id ? [user1Id, user2Id] : [user2Id, user1Id]
CanonicalPair(user1Id, user2Id) ==
  IF user1Id < user2Id THEN <<user1Id, user2Id>> ELSE <<user2Id, user1Id>>

\* a variant whose upsert also writes the status of the VALUES row
StoreMatchScoreResetsStatus(rows, user1Id, user2Id, score) ==
  LET pair == CanonicalPair(user1Id, user2Id)
      old == {r \in rows : r.user_id_1 = pair[1] /\ r.user_id_2 = pair[2]}
  IN (rows \ old) \cup {[user_id_1 |-> pair[1], user_id_2 |-> pair[2],
                         match_score |-> score, status |-> "pending"]}

\* INSERT INTO matches ... ON CONFLICT (user_id_1, user_id_2) DO UPDATE SET match_score
StoreMatchScore(rows, user1Id, user2Id, score) ==
  LET pair == CanonicalPair(user1Id, user2Id)
      old == {r \in rows : r.user_id_1 = pair[1] /\ r.user_id_2 = pair[2]}
  IN IF old = {}
       THEN rows \cup {[user_id_1 |-> pair[1], user_id_2 |-> pair[2],
                        match_score |-> score, status |-> "pending"]}
       ELSE (rows \ old) \cup {[r EXCEPT !.match_score = score] : r \in old}

\* the pairs whose matches row has status 'matched'
MatchedPairs(rows) == {<<r.user_id_1, r.user_id_2>> : r \in {x \in rows : x.status = "matched"}}

\* the key the drain worker writes: match:score:<smallerId>:<largerId>
WorkerScoreKey(userId, matchUserId) ==
  <<IF userId < matchUserId THEN userId ELSE matchUserId,
    IF userId < matchUserId THEN matchUserId ELSE userId>>

\* the key Match.getPotentialMatches reads and writes: match:score:<userId>:<match.user_id>
ModelScoreKey(userId, matchUserId) == <<userId, matchUserId>>

\* a signal of user u changed: the entries of u's pairs were computed from older signals
MarkStale(c, u) ==
  [k \in DOMAIN c |-> IF u \in {k[1], k[2]} THEN [c[k] EXCEPT !.fresh = FALSE] ELSE c[k]]

(***************************************************************************)
(* Initial state: empty tables, empty Redis, idle workers.                 *)
(***************************************************************************)
IdleDrain == [pc |-> "idle", todo |-> {}, userId |-> 0, matches |-> {},
              failed |-> FALSE, failedUsers |-> {}, attemptsMade |-> 0]
IdleRequest == [pc |-> "idle", userId |-> 0, minScore |-> 0, limit |-> 0, matches |-> {},
                results |-> {}, response |-> << >>, error |-> "none"]
NoJob == [pc |-> "none", def |-> 0, userId |-> 0, during |-> FALSE,
          songId |-> 0, duration |-> 0, hour |-> 0, attemptsMade |-> 0]
NoStatusCall == [pc |-> "idle", matchId |-> << >>, status |-> "none", newStatus |-> "none"]
NoRecs == [present |-> FALSE, body |-> << >>]
NoAnswer == [ok |-> FALSE, songs |-> << >>]
NoExchange == [route |-> "none", userId |-> 0, limit |-> 0, fault |-> "none",
               catalog |-> [genreSongs |-> NoAnswer, trending |-> NoAnswer],
               status |-> 0, body |-> << >>, newUser |-> FALSE, computed |-> FALSE]

ExplicitWeight == 10   \* the weight 5 of an explicit selection, in halves

\* Math.min(duration / 30, 1), in halves
ListenWeight(duration) == Min(duration \div 15, 2)

\* empty Redis, empty matches, idle workers
InitRest ==
  /\ pending = {}
  /\ drainQueue = 0
  /\ drain = IdleDrain
  /\ listenJobs = [j \in 1..MaxInFlight |-> NoJob]
  /\ ledger = {}
  /\ cache = [k \in Users \X Users |-> NoEntry]
  /\ request = IdleRequest
  /\ matchActions = {}
  /\ statusCall = [u \in Users |-> NoStatusCall]
  /\ recCache = [u \in Users |-> [songs |-> NoRecs, users |-> NoRecs]]
  /\ rec = NoExchange
  /\ hist = [calls |-> 0,
             events |-> [u \in Users |-> 0],
             notified |-> [u \in Users |-> 0],
             late |-> {},
             drainsStarted |-> 0,
             recomputed |-> [u \in Users |-> 0],
             failures |-> 0,
             stores |-> {},
             rescored |-> {},
             obtained |-> {},
             refreshed |-> {},
             marked |-> {},
             selected |-> {},
             readAt |-> 0,
             cachedFrom |-> [u \in Users |-> 0],
             invalidated |-> [u \in Users |-> 0]]

\* the tables after the users of heard have each listened once, at 9 o'clock and for
\* 30 seconds, to each of their songs, the users of selected having named their
\* genres before
PlayCounts(heard) == [u \in Users |-> [s \in Songs |-> IF s \in heard[u] THEN 1 ELSE 0]]
LastHours(heard) == [u \in Users |-> [s \in Songs |-> IF s \in heard[u] THEN 9 ELSE 0]]
GenreWeights(heard, selected) ==
  [u \in Users |-> [g \in Genres |->
     LET listens == Cardinality({s \in heard[u] \cap Songs : SongTable[s].genre = g})
     IN IF g \in selected[u] THEN ExplicitWeight + ListenWeight(30) * listens
        ELSE IF listens > 0 THEN ListenWeight(30) * listens
        ELSE NoRow]]

\* the state after start-up with the given rows in the tables of the store
InitTables(table, heard, selected) ==
  /\ profiles = table
  /\ playCount = PlayCounts(heard)
  /\ lastHour = LastHours(heard)
  /\ genreWeight = GenreWeights(heard, selected)
  /\ otherHistory = [u \in Users |-> heard[u] \ Songs]
  /\ InitRest

Nothing == [u \in Users |-> {}]

\* the state after start-up, with the user tables holding the rows of table
InitWith(table) == InitTables(table, Nothing, Nothing)
Init == InitWith(UserTable)

(***************************************************************************)
(* Signal changes: the listen worker, the preference route.                *)
(***************************************************************************)
FreeSlots == {j \in 1..MaxInFlight : listenJobs[j].pc = "none"}

\* the drain is in the turn of userId, after the loop over the candidates and
\* before the srem
Scored(userId) == drain.pc = "score" /\ drain.userId = userId /\ drain.matches = {}

\* updateUserMusicProfile: the genre row of the song gains the listen weight
UpdateUserMusicProfile(weights, userId, songId, duration) ==
  LET genre == SongTable[songId].genre
  IN IF genre = NoGenre THEN weights
     ELSE [weights EXCEPT ![userId][genre] =
             IF @ = NoRow THEN ListenWeight(duration) ELSE @ + ListenWeight(duration)]

\* The worker takes a job of POST /listen, records the listen
\* (INSERT INTO user_music_history ... ON CONFLICT DO UPDATE play_count + 1)
\* and updates the profile.  def tells which of the two listenWorker
\* definitions runs the job: the second returns here, the first goes on to
\* queueMatchRecalculation.  The job remembers in during whether the listen was
\* recorded after a drain had computed every score of this user's turn.
ListenRecord(def, userId, songId, duration, hour) ==
  /\ FreeSlots # {}
  /\ LET j == CHOOSE x \in FreeSlots : TRUE
     IN listenJobs' = [listenJobs EXCEPT ![j] =
          [pc |-> IF def = 1 THEN "sadd" ELSE "return", def |-> def, userId |-> userId,
           during |-> Scored(userId), songId |-> songId, duration |-> duration,
           hour |-> hour, attemptsMade |-> 1]]
  /\ playCount' = [playCount EXCEPT ![userId][songId] = @ + 1]
  /\ lastHour' = [lastHour EXCEPT ![userId][songId] = hour]
  /\ genreWeight' = UpdateUserMusicProfile(genreWeight, userId, songId, duration)
  /\ cache' = MarkStale(cache, userId)
  /\ hist' = [hist EXCEPT !.events[userId] = @ + 1, !.calls = @ + 1]
  /\ UNCHANGED <<sideVars, pending, drainQueue, drain, ledger, request>>

\* queueMatchRecalculation, first half: sadd and expire of match:recalculate.
\* hist.marked keeps the users whose listen was recorded and marked between the
\* last score of their turn in a drain and the drain's srem.
ListenSadd(j) ==
  LET job == listenJobs[j]
      marked == IF job.during /\ Scored(job.userId) THEN {job.userId} ELSE {}
  IN /\ job.pc = "sadd"
     /\ pending' = pending \cup {job.userId}
     /\ listenJobs' = [listenJobs EXCEPT ![j].pc = "enqueue"]
     /\ hist' = IF hist.drainsStarted = 0
                  THEN [hist EXCEPT !.notified[job.userId] = @ + 1]
                  ELSE [hist EXCEPT !.late = @ \cup {job.userId},
                                    !.marked = @ \cup marked]
     /\ UNCHANGED <<sideVars, playCount, lastHour, genreWeight, drainQueue, drain, ledger, cache, request>>

\* queueMatchRecalculation, second half: matchCalculationQueue.add with delay
\* 60000; then the two recommendation keys are deleted and the job returns.
\* hist.invalidated counts the user's listen events whose invalidation is done.
ListenEnqueue(j) ==
  LET job == listenJobs[j]
  IN /\ job.pc = "enqueue"
     /\ drainQueue' = drainQueue + 1
     /\ listenJobs' = [listenJobs EXCEPT ![j] = NoJob]
     /\ recCache' = [recCache EXCEPT ![job.userId] = [songs |-> NoRecs, users |-> NoRecs]]
     /\ hist' = [hist EXCEPT !.invalidated[job.userId] = @ + 1]
     /\ UNCHANGED <<restVars, playCount, lastHour, genreWeight, pending, drain, ledger, cache, request>>

\* queueMatchRecalculation or a del of the cache invalidation throws: the worker
\* rethrows (catch (error) { ...; throw error }), and the queue keeps the job for
\* another attempt while fewer than attempts: 3 were made, else fails it
ListenAttempts == 3

ListenThrows(j) ==
  LET job == listenJobs[j]
  IN /\ job.pc \in {"sadd", "enqueue"}
     /\ hist.failures < MaxFailures
     /\ listenJobs' = [listenJobs EXCEPT ![j] =
          IF job.attemptsMade < ListenAttempts THEN [job EXCEPT !.pc = "retry"] ELSE NoJob]
     /\ hist' = [hist EXCEPT !.failures = @ + 1]
     /\ UNCHANGED <<sideVars, playCount, lastHour, genreWeight, pending, drainQueue, drain, ledger,
                    cache, request>>

\* the next attempt of a failed job runs the worker from its first line: the
\* history upsert and the profile update are executed again
ListenRetry(j) ==
  LET job == listenJobs[j]
  IN /\ job.pc = "retry"
     /\ listenJobs' = [listenJobs EXCEPT ![j].pc = "sadd", ![j].attemptsMade = @ + 1,
                                         ![j].during = Scored(job.userId)]
     /\ playCount' = [playCount EXCEPT ![job.userId][job.songId] = @ + 1]
     /\ lastHour' = [lastHour EXCEPT ![job.userId][job.songId] = job.hour]
     /\ genreWeight' = UpdateUserMusicProfile(genreWeight, job.userId, job.songId, job.duration)
     /\ cache' = MarkStale(cache, job.userId)
     /\ UNCHANGED <<sideVars, pending, drainQueue, drain, ledger, request, hist>>

\* the second definition returns { success: true } after the profile update
ListenReturn(j) ==
  LET job == listenJobs[j]
  IN /\ job.pc = "return"
     /\ listenJobs' = [listenJobs EXCEPT ![j] = NoJob]
     /\ UNCHANGED <<sideVars, playCount, lastHour, genreWeight, pending, drainQueue, drain, ledger,
                    cache, request, hist>>

\* POST /music/preferences -> MusicPreference.updatePreferences, one transaction:
\* every selected genre gets GREATEST(preference_weight, 5)
UpdatePreferences(userId, genres) ==
  /\ genres # {}
  /\ genreWeight' = [genreWeight EXCEPT ![userId] =
       [g \in Genres |-> IF g \in genres THEN Max(@[g], ExplicitWeight) ELSE @[g]]]
  /\ cache' = MarkStale(cache, userId)
  /\ hist' = [hist EXCEPT !.calls = @ + 1,
                          !.selected = @ \cup {<<userId, g>> : g \in genres}]
  /\ UNCHANGED <<sideVars, playCount, lastHour, pending, drainQueue, drain, listenJobs, ledger, request>>

\* POST /matches/recalculate -> Match.queueForRecalculation: sadd and expire only
QueueForRecalculation(userId) ==
  /\ pending' = pending \cup {userId}
  /\ hist' = [hist EXCEPT !.calls = @ + 1, !.late = @ \cup {userId}]
  /\ UNCHANGED <<sideVars, playCount, lastHour, genreWeight, drainQueue, drain, listenJobs, ledger,
                 cache, request>>

(***************************************************************************)
(* The drain job of matchCalculationWorker.                                *)
(***************************************************************************)
\* the possible results of a query with LIMIT n and no ORDER BY
Limited(S, n) == {T \in SUBSET S : Cardinality(T) = Min(Cardinality(S), n)}

\* The worker takes a waiting job and reads smembers('match:recalculate');
\* with an empty set the job returns { processed: 0 } at once.
DrainStart ==
  /\ drain.pc = "idle"
  /\ drainQueue > 0
  /\ drainQueue' = drainQueue - 1
  /\ drain' = IF pending = {} THEN [IdleDrain EXCEPT !.attemptsMade = drain.attemptsMade]
              ELSE [IdleDrain EXCEPT !.pc = "user", !.todo = pending,
                                     !.attemptsMade = drain.attemptsMade]
  /\ hist' = [hist EXCEPT !.drainsStarted = @ + 1]
  /\ UNCHANGED <<sideVars, playCount, lastHour, genreWeight, pending, listenJobs, ledger, cache, request>>

\* The job options of queueMatchRecalculation: attempts: 3.  drain.attemptsMade is
\* the number of attempts made by a job that threw and waits, delayed, for its next
\* attempt; 0 when no job waits so.
DrainAttempts == 3

\* a variant in which a job that throws is kept for a further attempt every time
DrainThrowsAgain ==
  /\ drain.pc = "idle"
  /\ drain.attemptsMade > 0 \/ drainQueue > 0
  /\ drainQueue' = IF drain.attemptsMade > 0 THEN drainQueue ELSE drainQueue - 1
  /\ drain' = [IdleDrain EXCEPT !.attemptsMade = drain.attemptsMade + 1]
  /\ hist' = [hist EXCEPT !.failures = @ + 1,
                          !.drainsStarted = IF drain.attemptsMade > 0 THEN @ ELSE @ + 1]
  /\ UNCHANGED <<sideVars, playCount, lastHour, genreWeight, pending, listenJobs, ledger, cache, request>>

\* The worker takes a job, the delayed one or a waiting one, and smembers throws:
\* catch (error) { ...; throw error }.  Nothing else of the job throws, the loops
\* catch their errors.  The queue keeps the job for another attempt while fewer
\* than attempts: 3 were made, else the job has failed.
DrainThrows ==
  /\ drain.pc = "idle"
  /\ drain.attemptsMade > 0 \/ drainQueue > 0
  /\ drainQueue' = IF drain.attemptsMade > 0 THEN drainQueue ELSE drainQueue - 1
  /\ drain' = [IdleDrain EXCEPT !.attemptsMade =
                  IF drain.attemptsMade + 1 < DrainAttempts THEN drain.attemptsMade + 1 ELSE 0]
  /\ hist' = [hist EXCEPT !.failures = @ + 1,
                          !.drainsStarted = IF drain.attemptsMade > 0 THEN @ ELSE @ + 1]
  /\ UNCHANGED <<sideVars, playCount, lastHour, genreWeight, pending, listenJobs, ledger, cache, request>>

\* the next attempt of the delayed job: smembers is read again
DrainRetry ==
  /\ drain.pc = "idle"
  /\ drain.attemptsMade > 0
  /\ drain' = IF pending = {} THEN IdleDrain
              ELSE [IdleDrain EXCEPT !.pc = "user", !.todo = pending]
  /\ UNCHANGED <<sideVars, playCount, lastHour, genreWeight, pending, drainQueue, listenJobs, ledger,
                 cache, request, hist>>

\* the next user of the snapshot: potentialMatchesQuery returns its rows
DrainQuery(userId) ==
  /\ drain.pc = "user"
  /\ userId \in drain.todo
  /\ \E rows \in Limited(WorkerCandidates(userId), DrainLimit) :
       drain' = [drain EXCEPT !.pc = "score", !.todo = @ \ {userId}, !.userId = userId,
                              !.matches = rows, !.failed = FALSE]
  /\ hist' = [hist EXCEPT !.recomputed[userId] = @ + 1, !.marked = @ \ {userId}]
  /\ UNCHANGED <<sideVars, playCount, lastHour, genreWeight, pending, drainQueue, listenJobs, ledger,
                 cache, request>>

\* potentialMatchesQuery throws: catch (userError), continue with the next user
DrainQueryThrows(userId) ==
  /\ drain.pc = "user"
  /\ userId \in drain.todo
  /\ hist.failures < MaxFailures
  /\ drain' = [drain EXCEPT !.todo = @ \ {userId}]
  /\ hist' = [hist EXCEPT !.failures = @ + 1]
  /\ UNCHANGED <<sideVars, playCount, lastHour, genreWeight, pending, drainQueue, listenJobs, ledger,
                 cache, request>>

\* a variant in which a candidate's failure ends the loop over the user's candidates
DrainScoreAborts(matchUserId, outcome) ==
  LET userId == drain.userId
      matchScore == WorkerCalculateMatchScore(userId, matchUserId)
      scoreKey == WorkerScoreKey(userId, matchUserId)
  IN /\ drain.pc = "score"
     /\ matchUserId \in drain.matches
     /\ outcome # "ok" => hist.failures < MaxFailures
     /\ ledger' = IF outcome = "store" THEN ledger
                  ELSE StoreMatchScore(ledger, userId, matchUserId, matchScore)
     /\ cache' = IF outcome = "ok"
                   THEN [cache EXCEPT ![scoreKey] =
                           [value |-> ScoreToString(matchScore), fresh |-> TRUE]]
                   ELSE cache
     /\ drain' = [drain EXCEPT !.matches = IF outcome = "ok" THEN @ \ {matchUserId} ELSE {},
                               !.failed = @ \/ outcome # "ok"]
     /\ hist' = [hist EXCEPT
                   !.failures = IF outcome = "ok" THEN @ ELSE @ + 1,
                   !.stores = IF outcome = "store" THEN @ ELSE @ \cup {<<userId, matchUserId>>},
                   !.rescored = IF outcome = "store" THEN @
                                ELSE @ \cup (MatchedPairs(ledger) \cap {CanonicalPair(userId, matchUserId)})]
     /\ UNCHANGED <<sideVars, playCount, lastHour, genreWeight, pending, drainQueue, listenJobs, request>>

\* One candidate: calculateMatchScore, storeMatchScore, asyncRedis.set.
\* outcome "ok": all three succeed; "store": the score query or the upsert
\* throws; "cache": the Redis set throws.  A throw is caught (scoreError) and
\* the loop goes on with the next candidate.
DrainScore(matchUserId, outcome) ==
  LET userId == drain.userId
      matchScore == WorkerCalculateMatchScore(userId, matchUserId)
      scoreKey == WorkerScoreKey(userId, matchUserId)
  IN /\ drain.pc = "score"
     /\ matchUserId \in drain.matches
     /\ outcome # "ok" => hist.failures < MaxFailures
     /\ ledger' = IF outcome = "store" THEN ledger
                  ELSE StoreMatchScore(ledger, userId, matchUserId, matchScore)
     /\ cache' = IF outcome = "ok"
                   THEN [cache EXCEPT ![scoreKey] =
                           [value |-> ScoreToString(matchScore), fresh |-> TRUE]]
                   ELSE cache
     /\ drain' = [drain EXCEPT !.matches = @ \ {matchUserId},
                               !.failed = @ \/ outcome # "ok"]
     /\ hist' = [hist EXCEPT
                   !.failures = IF outcome = "ok" THEN @ ELSE @ + 1,
                   !.stores = IF outcome = "store" THEN @ ELSE @ \cup {<<userId, matchUserId>>},
                   !.rescored = IF outcome = "store" THEN @
                                ELSE @ \cup (MatchedPairs(ledger) \cap {CanonicalPair(userId, matchUserId)})]
     /\ UNCHANGED <<sideVars, playCount, lastHour, genreWeight, pending, drainQueue, listenJobs, request>>

\* a variant in which the loop over the candidates ends without the srem
DrainRemoveKeepsUser ==
  /\ drain.pc = "score"
  /\ drain.matches = {}
  /\ drain' = [drain EXCEPT !.pc = "user",
                            !.failedUsers = IF drain.failed THEN @ \cup {drain.userId} ELSE @]
  /\ UNCHANGED <<sideVars, playCount, lastHour, genreWeight, pending, drainQueue, listenJobs, ledger,
                 cache, request, hist>>

\* after the loop over the candidates: srem('match:recalculate', userId)
DrainRemove ==
  /\ drain.pc = "score"
  /\ drain.matches = {}
  /\ pending' = pending \ {drain.userId}
  /\ drain' = [drain EXCEPT !.pc = "user",
                            !.failedUsers = IF drain.failed THEN @ \cup {drain.userId} ELSE @]
  /\ UNCHANGED <<sideVars, playCount, lastHour, genreWeight, drainQueue, listenJobs, ledger, cache,
                 request, hist>>

\* every user of the snapshot was visited: the job returns { success: true }
DrainReturn ==
  /\ drain.pc = "user"
  /\ drain.todo = {}
  /\ drain' = [IdleDrain EXCEPT !.attemptsMade = drain.attemptsMade]
  /\ UNCHANGED <<sideVars, playCount, lastHour, genreWeight, pending, drainQueue, listenJobs, ledger,
                 cache, request, hist>>

(***************************************************************************)
(* Match.getPotentialMatches, the interactive get-or-compute path.         *)
(***************************************************************************)
MinScores == {1, 60}
DefaultMinScore == 60
DefaultLimit == 20

\* parseInt(req.query.minScore) || 60 and parseInt(req.query.limit) || 20
OrSixty(minScore) == IF minScore = 0 THEN DefaultMinScore ELSE minScore
OrTwenty(limit) == IF limit = 0 THEN DefaultLimit ELSE limit

\* (matchScore * 0.8) + (proximityFactor * 100 * 0.2) in thousandths of a point, with
\* proximityFactor = Math.max(0, 1 - distance / (userPrefs.max_distance || 100))
AdjustedScore(matchScore, distance, max_distance) ==
  LET maxDistance == OrFalsy(max_distance, DefaultMaxDistance)
  IN matchScore * 8 + Max(0, (20 * 1000 * (maxDistance - distance)) \div maxDistance)

\* a variant of the sort with the comparison turned round: a.score - b.score
SortedAscending(results) ==
  {seq \in [1..Cardinality(results) -> results] :
     /\ \A i, j \in DOMAIN seq : i # j => seq[i] # seq[j]
     /\ \A i, j \in DOMAIN seq : i < j => seq[i].score <= seq[j].score}

\* matchResults.sort((a, b) => b.score - a.score): the rows come from the database in
\* no stated order, so rows of equal score may end in either order
SortedByScore(results) ==
  {seq \in [1..Cardinality(results) -> results] :
     /\ \A i, j \in DOMAIN seq : i # j => seq[i] # seq[j]
     /\ \A i, j \in DOMAIN seq : i < j => seq[i].score >= seq[j].score}

\* matchResults.slice(0, limit)
Slice(seq, limit) == SubSeq(seq, 1, Min(limit, Len(seq)))

\* userPrefsQuery found a preference row with a latitude; potentialMatchesQuery ran
RequestStart(userId, minScore, limit) ==
  /\ request.pc = "idle"
  /\ profiles[userId].has_prefs /\ profiles[userId].has_location
  /\ request' = [IdleRequest EXCEPT !.pc = "score", !.userId = userId,
                                     !.minScore = OrSixty(minScore), !.limit = OrTwenty(limit),
                                     !.matches = ModelCandidates(userId)]
  /\ hist' = [hist EXCEPT !.calls = @ + 1, !.obtained = {}]
  /\ UNCHANGED <<sideVars, playCount, lastHour, genreWeight, pending, drainQueue, drain, listenJobs,
                 ledger, cache>>

\* userPrefsQuery found no preference row, or a row without a latitude: the model
\* throws 'User preferences or location not found' and the route answers 400
RequestThrows(userId) ==
  /\ request.pc = "idle"
  /\ ~(profiles[userId].has_prefs /\ profiles[userId].has_location)
  /\ request' = [IdleRequest EXCEPT !.userId = userId, !.error = "location not found"]
  /\ hist' = [hist EXCEPT !.calls = @ + 1]
  /\ UNCHANGED <<sideVars, playCount, lastHour, genreWeight, pending, drainQueue, drain, listenJobs,
                 ledger, cache>>

\* one candidate of the loop: cached score, or calculateMatchScore (which
\* stores the score in matches) and a cache write
RequestScore(matchUserId) ==
  LET userId == request.userId
      scoreKey == ModelScoreKey(userId, matchUserId)
      hit == cache[scoreKey] # NoEntry
      matchScore == IF hit THEN ParseFloat(cache[scoreKey].value)
                    ELSE ModelCalculateMatchScore(userId, matchUserId)
  IN /\ request.pc = "score"
     /\ matchUserId \in request.matches
     /\ ledger' = IF hit THEN ledger
                  ELSE StoreMatchScore(ledger, userId, matchUserId, matchScore)
     /\ cache' = IF hit THEN cache
                 ELSE [cache EXCEPT ![scoreKey] =
                         [value |-> ScoreToString(matchScore), fresh |-> TRUE]]
     /\ request' = [request EXCEPT
                      !.matches = @ \ {matchUserId},
                      !.results = IF matchScore >= request.minScore * PointScale
                                    THEN @ \cup {[userId |-> matchUserId,
                                                  score |-> AdjustedScore(matchScore,
                                                              Distance(userId, matchUserId),
                                                              profiles[userId].max_distance),
                                                  musicScore |-> matchScore,
                                                  distance |-> Distance(userId, matchUserId)]}
                                    ELSE @]
     /\ hist' = [hist EXCEPT
                   !.stores = IF hit THEN @ ELSE @ \cup {<<userId, matchUserId>>},
                   !.obtained = @ \cup {<<matchUserId, matchScore>>},
                   !.rescored = IF hit THEN @
                                ELSE @ \cup (MatchedPairs(ledger) \cap {CanonicalPair(userId, matchUserId)})]
     /\ UNCHANGED <<sideVars, playCount, lastHour, genreWeight, pending, drainQueue, drain, listenJobs>>

\* the loop is over: sort, slice, and the route sends the list
RequestReturn ==
  /\ request.pc = "score"
  /\ request.matches = {}
  /\ \E sorted \in SortedByScore(request.results) :
       request' = [request EXCEPT !.pc = "idle", !.response = Slice(sorted, request.limit)]
  /\ UNCHANGED <<sideVars, playCount, lastHour, genreWeight, pending, drainQueue, drain, listenJobs,
                 ledger, cache, hist>>

\* the score keys expire (EX 86400) or Redis is flushed
FlushCache ==
  /\ cache' = [k \in Users \X Users |-> NoEntry]
  /\ hist' = [hist EXCEPT !.calls = @ + 1]
  /\ UNCHANGED <<sideVars, playCount, lastHour, genreWeight, pending, drainQueue, drain, listenJobs,
                 ledger, request>>

(***************************************************************************)
(* Match.updateStatus (POST /matches/:matchId/action).  A match is named   *)
(* by its pair of users, which is unique as match_id is.                   *)
(***************************************************************************)
MatchActions == {"liked", "passed"}

\* the row of user_match_actions for (matchId, userId), as a set
ActionRows(rows, matchId, userId) ==
  {a \in rows : a.match_id = matchId /\ a.user_id = userId}

\* matchQuery found the row and the user in it; for 'liked', otherUserActionQuery
\* is read and newStatus is decided
UpdateStatusRead(userId, matchId, status) ==
  LET otherUserId == IF matchId[1] = userId THEN matchId[2] ELSE matchId[1]
      otherLiked == \E a \in ActionRows(matchActions, matchId, otherUserId) : a.status = "liked"
  IN /\ statusCall[userId].pc = "idle"
     /\ \E r \in ledger : <<r.user_id_1, r.user_id_2>> = matchId
     /\ userId \in {matchId[1], matchId[2]}
     /\ statusCall' = [statusCall EXCEPT ![userId] =
          [pc |-> "write", matchId |-> matchId, status |-> status,
           newStatus |-> IF status = "liked" /\ otherLiked THEN "matched" ELSE status]]
     /\ hist' = [hist EXCEPT !.calls = @ + 1]
     /\ UNCHANGED <<playCount, lastHour, genreWeight, pending, drainQueue, drain, listenJobs,
                    ledger, cache, request, matchActions, profiles, otherHistory, recCache, rec>>

\* actionQuery upserts the user's action; with newStatus 'matched' the matches
\* row is updated to status 'matched'
UpdateStatusWrite(userId) ==
  LET call == statusCall[userId]
  IN /\ call.pc = "write"
     /\ matchActions' = (matchActions \ ActionRows(matchActions, call.matchId, userId))
                          \cup {[match_id |-> call.matchId, user_id |-> userId,
                                 status |-> call.status]}
     /\ ledger' = IF call.newStatus = "matched"
                    THEN {IF <<r.user_id_1, r.user_id_2>> = call.matchId
                            THEN [r EXCEPT !.status = "matched"] ELSE r : r \in ledger}
                    ELSE ledger
     /\ statusCall' = [statusCall EXCEPT ![userId] = NoStatusCall]
     /\ UNCHANGED <<playCount, lastHour, genreWeight, pending, drainQueue, drain, listenJobs,
                    cache, request, profiles, otherHistory, recCache, rec, hist>>

(***************************************************************************)
(* The store queries of the song recommendations.  The songs table holds   *)
(* the songs of Songs and every song with a history row; song_name orders  *)
(* the songs as their ids do.  Where a query orders its rows by RANDOM(),  *)
(* any set of rows of the right size may come back; the rows are listed by *)
(* id, since their order plays no part in what is checked.                 *)
(***************************************************************************)
NewUserThreshold == 5
HistoryLimit == 50

\* the song ids of the user's rows in user_music_history
History(userId) == UserSongs(userId) \cup otherHistory[userId]

Catalogue == Songs \cup UNION {otherHistory[u] : u \in Users}

\* isNewUser: SELECT COUNT(*) FROM user_music_history WHERE user_id = $1, < 5
IsNewUser(userId) == Cardinality(History(userId)) < NewUserThreshold

RECURSIVE KSubsets(_, _)
\* the subsets of S with k elements
KSubsets(S, k) ==
  IF k = 0 THEN {{}}
  ELSE UNION {{T \cup {x} : T \in KSubsets({y \in S : y > x}, k - 1)} : x \in S}

RECURSIVE Ascending(_)
\* the elements of the set of numbers S, smallest first
Ascending(S) ==
  IF S = {} THEN << >>
  ELSE LET x == CHOOSE y \in S : \A z \in S : y <= z IN <<x>> \o Ascending(S \ {x})

Range(seq) == {seq[i] : i \in DOMAIN seq}

\* Math.ceil(a / b)
CeilDiv(a, b) == (a + b - 1) \div b

\* MusicHistory.getUserHistory(userId): ORDER BY last_played DESC LIMIT 50.  The
\* model does not keep last_played, and every order of a user's listens can
\* occur: of a longer history any 50 rows may be the latest ones.
GetUserHistory(userId) ==
  IF Cardinality(History(userId)) <= HistoryLimit THEN {History(userId)}
  ELSE {History(userId) \ older :
          older \in KSubsets(History(userId), Cardinality(History(userId)) - HistoryLimit)}

\* COUNT(DISTINCT umh.user_id) of a song
ListenerCount(songId) == Cardinality({u \in Users : songId \in History(u)})

RECURSIVE PopularRows(_, _)
\* the first limit songs of S under ORDER BY listener_count DESC, song_name
PopularRows(S, limit) ==
  IF S = {} \/ limit <= 0 THEN << >>
  ELSE LET first == CHOOSE x \in S : \A y \in S :
                      \/ ListenerCount(x) > ListenerCount(y)
                      \/ ListenerCount(x) = ListenerCount(y) /\ x <= y
       IN <<first>> \o PopularRows(S \ {first}, limit - 1)

\* Song.getPopular(limit, excludeSongIds): the songs with a history row (JOIN
\* user_music_history) outside excludeSongIds
GetPopular(limit, excludeSongIds) ==
  PopularRows({s \in Catalogue : ListenerCount(s) > 0 /\ s \notin excludeSongIds}, limit)

\* Song.getByGenre(genre, limit): WHERE genre = $1 ORDER BY RANDOM() LIMIT $2
GetByGenre(genre, limit) ==
  LET rows == {s \in Songs : SongTable[s].genre = genre}
  IN {Ascending(T) : T \in KSubsets(rows, Min(limit, Cardinality(rows)))}

\* the fallbackQuery of getPopularSongs: FROM songs ORDER BY RANDOM() LIMIT $1
RandomSongs(limit) ==
  {Ascending(T) : T \in KSubsets(Catalogue, Min(limit, Cardinality(Catalogue)))}

\* the genres of the user's rows in user_music_preferences
PreferredGenres(userId) == {g \in Genres : genreWeight[userId][g] # NoRow}

\* the genre rows under ORDER BY preference_weight DESC
GenresByWeight(userId) ==
  {seq \in [1..Cardinality(PreferredGenres(userId)) -> PreferredGenres(userId)] :
     /\ \A i, j \in DOMAIN seq : i # j => seq[i] # seq[j]
     /\ \A i, j \in DOMAIN seq :
          i < j => genreWeight[userId][seq[i]] >= genreWeight[userId][seq[j]]}

RECURSIVE Unique(_, _)
\* the deduplication loops and _.uniqBy: the ids of seq that are not in seen, each
\* once, in the order of their first occurrence
Unique(seq, seen) ==
  IF seq = << >> THEN << >>
  ELSE IF Head(seq) \in seen THEN Unique(Tail(seq), seen)
  ELSE <<Head(seq)>> \o Unique(Tail(seq), seen \cup {Head(seq)})

\* a list of song ids as response entries of one recommendationType
Tagged(ids, tag) == [i \in DOMAIN ids |-> [id |-> ids[i], tag |-> tag]]

Ids(entries) == [i \in DOMAIN entries |-> entries[i].id]

(***************************************************************************)
(* Song recommendations.  A request is served in one step.  fault names    *)
(* what is out of order while it is served: "cache get" and "cache set"    *)
(* (that Redis call throws), "store" (every query throws) or "none".  The  *)
(* catalog service answers each call with an error (ok FALSE) or a list of *)
(* songs.  A composer yields Thrown or the list it returns.                *)
(***************************************************************************)
Faults == {"none", "cache get", "cache set", "store"}
CatalogAnswers ==
  {[ok |-> FALSE, songs |-> << >>], [ok |-> TRUE, songs |-> << >>],
   [ok |-> TRUE, songs |-> <<1>>], [ok |-> TRUE, songs |-> <<1, 2>>]}
Catalogs == [genreSongs : CatalogAnswers, trending : CatalogAnswers]

NoTag == "none"
Thrown == [failed |-> TRUE, body |-> << >>]
Returned(body) == [failed |-> FALSE, body |-> body]

\* a genre object { name, weight } of MusicPreference.getPreferences as the
\* query parameter $1: pg sends an object as its JSON text
ObjectText(genre) == IF genre = "rock" THEN "{name:rock}" ELSE "{name:jazz}"

RECURSIVE GenreLoop(_, _, _, _)
\* for (const genre of genres): push Song.getByGenre(genre, perGenre), break when
\* recommendations.length >= limit
GenreLoop(recommendations, genres, perGenre, limit) ==
  IF genres = << >> THEN {recommendations}
  ELSE UNION {LET pushed == recommendations \o genreSongs
              IN IF Len(pushed) >= limit THEN {pushed}
                 ELSE GenreLoop(pushed, Tail(genres), perGenre, limit)
              : genreSongs \in GetByGenre(ObjectText(Head(genres)), perGenre)}

\* a variant of the fallback in which an error of the catalog call is not caught
RouteFallbackRethrows(limit, trending, fault) ==
  IF ~trending.ok THEN Thrown
  ELSE IF trending.songs # << >> THEN Returned(Tagged(trending.songs, NoTag))
  ELSE IF fault = "store" THEN Thrown
  ELSE Returned(Tagged(GetPopular(limit, {}), NoTag))

\* getNewUserRecommendations of the recommendation routes: after the genre tier, the
\* trending call of the catalog, then Song.getPopular(limit)
RouteFallback(limit, trending, fault) ==
  IF trending.ok /\ trending.songs # << >> THEN Returned(Tagged(trending.songs, NoTag))
  ELSE IF fault = "store" THEN Thrown
  ELSE Returned(Tagged(GetPopular(limit, {}), NoTag))

\* getNewUserRecommendations of the recommendation routes, genres being the genre
\* objects of the user's preferences
RouteGetNewUserRecommendations(genres, limit, trending, fault) ==
  IF genres = << >> THEN {RouteFallback(limit, trending, fault)}
  ELSE IF fault = "store" THEN {Thrown}
  ELSE {LET uniqueRecs == Slice(Unique(recommendations, {}), limit)
        IN IF 2 * Len(uniqueRecs) >= limit THEN Returned(Tagged(uniqueRecs, NoTag))
           ELSE RouteFallback(limit, trending, fault)
        : recommendations \in GenreLoop(<< >>, genres, CeilDiv(limit, Len(genres)), limit)}

\* Song.getRecommendationsByPreferences(userId, preferences, history, limit) with
\* history = MusicHistory.getUserSongIds(userId): songs of the preferred genres that
\* the user has not heard, up to limit
GetRecommendationsByPreferences(userId, limit) ==
  LET rows == {s \in Songs : SongTable[s].genre \in PreferredGenres(userId)
                             /\ s \notin History(userId)}
  IN {Ascending(T) : T \in KSubsets(rows, Min(limit, Cardinality(rows)))}

\* getContentBasedSongRecommendations(userId, limit)
GetContentBasedSongRecommendations(userId, limit) ==
  IF PreferredGenres(userId) = {} THEN {<< >>}
  ELSE GetRecommendationsByPreferences(userId, limit)

\* GET /songs for a user with history: content-based songs, deduplicated, then
\* Song.getPopular for the rest, outside getUserHistory's rows and the chosen songs
EstablishedRecommendations(userId, limit) ==
  UNION {LET uniqueRecs == Slice(Unique(contentRecs, {}), limit)
         IN IF Len(uniqueRecs) >= limit THEN {Returned(Tagged(uniqueRecs, NoTag))}
            ELSE {Returned(Tagged(uniqueRecs
                     \o GetPopular(limit - Len(uniqueRecs), userSongIds \cup Range(uniqueRecs)),
                     NoTag))
                  : userSongIds \in GetUserHistory(userId)}
         : contentRecs \in GetContentBasedSongRecommendations(userId, limit \div 2)}

\* what GET /songs computes when the key is not cached
ComputeSongs(userId, limit, trending, fault) ==
  IF fault = "store" THEN {Thrown}   \* isNewUser answers true, getPreferences throws
  ELSE IF IsNewUser(userId)
    THEN UNION {RouteGetNewUserRecommendations(genres, limit, trending, fault)
                : genres \in GenresByWeight(userId)}
    ELSE EstablishedRecommendations(userId, limit)

ServerError == 500
Ok == 200

\* GET /api/recommendations/songs
GetSongs(userId, limit, trending, fault) ==
  LET cached == recCache[userId].songs
      exchange == [NoExchange EXCEPT !.route = "songs", !.userId = userId, !.limit = limit,
                                     !.fault = fault, !.catalog.trending = trending,
                                     !.status = Ok]
      isNewUser == fault = "store" \/ IsNewUser(userId)
  IN /\ IF fault = "cache get"
          THEN /\ rec' = [exchange EXCEPT !.status = ServerError]
               /\ UNCHANGED recCache
          ELSE IF cached.present
          THEN /\ rec' = [exchange EXCEPT !.body = cached.body]
               /\ UNCHANGED recCache
          ELSE \E result \in ComputeSongs(userId, limit, trending, fault) :
                 IF result.failed \/ fault = "cache set"
                   THEN /\ rec' = [exchange EXCEPT !.status = ServerError,
                                                   !.newUser = isNewUser,
                                                   !.computed = ~result.failed]
                        /\ UNCHANGED recCache
                   ELSE /\ rec' = [exchange EXCEPT !.body = result.body,
                                                   !.newUser = isNewUser, !.computed = TRUE]
                        /\ recCache' = [recCache EXCEPT ![userId].songs =
                                          [present |-> TRUE, body |-> result.body]]
     /\ hist' = [hist EXCEPT !.calls = @ + 1]
     /\ UNCHANGED <<matchActions, statusCall, profiles, otherHistory, playCount, lastHour,
                    genreWeight, pending, drainQueue, drain, listenJobs, ledger, cache, request>>

\* GET /api/recommendations/songs in two steps, for runs in which other work
\* comes between them.  First step: the cache is read; on a hit the list is
\* answered, on a miss the store is read and the list computed.  rec.status 0
\* says that the answer is still to come; hist.readAt is the number of the user's
\* listen events that were recorded when the store was read.
SongsInFlight == rec.route = "songs" /\ rec.status = 0

GetSongsRead(userId, limit) ==
  LET cached == recCache[userId].songs
      exchange == [NoExchange EXCEPT !.route = "songs", !.userId = userId, !.limit = limit,
                                     !.status = Ok]
  IN /\ ~SongsInFlight
     /\ IF cached.present
          THEN /\ rec' = [exchange EXCEPT !.body = cached.body]
               /\ hist' = [hist EXCEPT !.calls = @ + 1]
          ELSE \E result \in ComputeSongs(userId, limit, NoAnswer, "none") :
                 /\ rec' = [exchange EXCEPT !.status = 0, !.body = result.body,
                                            !.newUser = IsNewUser(userId), !.computed = TRUE]
                 /\ hist' = [hist EXCEPT !.calls = @ + 1, !.readAt = hist.events[userId]]
     /\ UNCHANGED <<matchActions, statusCall, profiles, otherHistory, recCache, playCount, lastHour,
                    genreWeight, pending, drainQueue, drain, listenJobs, ledger, cache, request>>

\* second step: asyncRedis.set(cacheKey, ...) and res.json({ recommendations })
GetSongsStore ==
  /\ SongsInFlight
  /\ recCache' = [recCache EXCEPT ![rec.userId].songs = [present |-> TRUE, body |-> rec.body]]
  /\ rec' = [rec EXCEPT !.status = Ok]
  /\ hist' = [hist EXCEPT !.cachedFrom[rec.userId] = hist.readAt]
  /\ UNCHANGED <<matchActions, statusCall, profiles, otherHistory, playCount, lastHour,
                 genreWeight, pending, drainQueue, drain, listenJobs, ledger, cache, request>>

\* getPopularSongs(limit, excludeSongIds) of new-user-recommendations.  With no
\* excluded id the WHERE clause is s.song_id NOT IN (NULL), which holds of no row.
\* The function catches every error and so always returns a list.
GetPopularSongs(limit, excludeSongIds, trending, fault) ==
  LET rows == IF excludeSongIds = {} THEN << >> ELSE GetPopular(limit, excludeSongIds)
  IN IF fault = "store" THEN {<< >>}            \* both queries throw: return []
     ELSE IF 2 * Len(rows) >= limit THEN {Tagged(rows, "popular")}
     ELSE IF ~trending.ok                        \* axios throws: the fallbackQuery
       THEN {Tagged(songs, "random") : songs \in RandomSongs(limit)}
     ELSE IF trending.songs = << >> THEN {Tagged(rows, "popular")}
     ELSE {Tagged(trending.songs, "trending")}

\* getNewUserRecommendations(userId, selectedGenres, limit) of
\* new-user-recommendations: the genre-songs call of the catalog, else
\* getPopularSongs(limit).  The INSERT of the selected genres meets the rows the
\* genres were read from (ON CONFLICT DO NOTHING).
GetNewUserRecommendations(selectedGenres, limit, catalog, fault) ==
  IF /\ selectedGenres # {}
     /\ fault # "store"
     /\ catalog.genreSongs.ok
     /\ catalog.genreSongs.songs # << >>
    THEN {Tagged(catalog.genreSongs.songs, "genre-based")}
    ELSE GetPopularSongs(limit, {}, catalog.trending, fault)

\* getCollaborativeSongRecommendations(userId, limit): songs that other users have
\* heard and the user has not, up to limit
GetCollaborativeSongRecommendations(userId, limit) ==
  LET rows == {s \in Catalogue : ListenerCount(s) > 0 /\ s \notin History(userId)}
  IN {Ascending(T) : T \in KSubsets(rows, Min(limit, Cardinality(rows)))}

\* what GET /recommendations/songs/:userId computes when the key is not cached
ComputeRecommendations(userId, limit, catalog, fault) ==
  IF fault = "store" THEN {Thrown}   \* isNewUser answers true, genrePrefsQuery throws
  ELSE IF IsNewUser(userId)
    THEN {Returned(body) :
            body \in GetNewUserRecommendations(PreferredGenres(userId), limit, catalog, fault)}
    ELSE UNION {LET recommendations ==
                      Slice(Unique(collaborativeRecs \o contentRecs, {}), limit)
                IN IF Len(recommendations) >= limit
                     THEN {Returned(Tagged(recommendations, NoTag))}
                     ELSE {Returned(Tagged(recommendations, NoTag) \o popularRecs) :
                             popularRecs \in GetPopularSongs(limit - Len(recommendations),
                                               History(userId) \cup Range(recommendations),
                                               catalog.trending, fault)}
                : <<collaborativeRecs, contentRecs>> \in
                    GetCollaborativeSongRecommendations(userId, limit \div 2)
                      \X GetContentBasedSongRecommendations(userId, limit \div 2)}

\* GET /recommendations/songs/:userId of the api routes
GetRecommendationsSongs(userId, limit, catalog, fault) ==
  LET cached == recCache[userId].songs
      exchange == [NoExchange EXCEPT !.route = "songs by id", !.userId = userId,
                                     !.limit = limit, !.fault = fault, !.catalog = catalog,
                                     !.status = Ok]
      isNewUser == fault = "store" \/ IsNewUser(userId)
  IN /\ IF fault = "cache get"
          THEN /\ rec' = [exchange EXCEPT !.status = ServerError]
               /\ UNCHANGED recCache
          ELSE IF cached.present
          THEN /\ rec' = [exchange EXCEPT !.body = cached.body]
               /\ UNCHANGED recCache
          ELSE \E result \in ComputeRecommendations(userId, limit, catalog, fault) :
                 IF result.failed \/ fault = "cache set"
                   THEN /\ rec' = [exchange EXCEPT !.status = ServerError,
                                                   !.newUser = isNewUser,
                                                   !.computed = ~result.failed]
                        /\ UNCHANGED recCache
                   ELSE /\ rec' = [exchange EXCEPT !.body = result.body,
                                                   !.newUser = isNewUser, !.computed = TRUE]
                        /\ recCache' = [recCache EXCEPT ![userId].songs =
                                          [present |-> TRUE, body |-> result.body]]
     /\ hist' = [hist EXCEPT !.calls = @ + 1]
     /\ UNCHANGED <<matchActions, statusCall, profiles, otherHistory, playCount, lastHour,
                    genreWeight, pending, drainQueue, drain, listenJobs, ledger, cache, request>>

BadRequest == 400

\* Match.getNearbyUsers(userId, location, preferences, limit): the candidates of the
\* user, nearest first
GetNearbyUsers(userId, limit) ==
  LET RECURSIVE Nearest(_, _)
      Nearest(S, n) ==
        IF S = {} \/ n = 0 THEN << >>
        ELSE LET c == CHOOSE x \in S : \A y \in S :
                        \/ Distance(userId, x) < Distance(userId, y)
                        \/ Distance(userId, x) = Distance(userId, y) /\ x <= y
             IN <<c>> \o Nearest(S \ {c}, n - 1)
  IN Nearest(ModelCandidates(userId), limit)

\* GET /api/recommendations/users
GetUsers(userId, limit, fault) ==
  LET cached == recCache[userId].users
      exchange == [NoExchange EXCEPT !.route = "users", !.userId = userId, !.limit = limit,
                                     !.fault = fault, !.status = Ok]
      body == Tagged(GetNearbyUsers(userId, limit), NoTag)
  IN /\ IF fault = "cache get"
          THEN /\ rec' = [exchange EXCEPT !.status = ServerError]
               /\ UNCHANGED recCache
          ELSE IF cached.present
          THEN /\ rec' = [exchange EXCEPT !.body = cached.body]
               /\ UNCHANGED recCache
          ELSE IF fault = "store"
          THEN /\ rec' = [exchange EXCEPT !.status = ServerError]
               /\ UNCHANGED recCache
          ELSE IF ~profiles[userId].has_location
          THEN /\ rec' = [exchange EXCEPT !.status = BadRequest]
               /\ UNCHANGED recCache
          ELSE IF fault = "cache set"
          THEN /\ rec' = [exchange EXCEPT !.status = ServerError, !.computed = TRUE]
               /\ UNCHANGED recCache
          ELSE /\ rec' = [exchange EXCEPT !.body = body, !.computed = TRUE]
               /\ recCache' = [recCache EXCEPT ![userId].users =
                                 [present |-> TRUE, body |-> body]]
     /\ hist' = [hist EXCEPT !.calls = @ + 1]
     /\ UNCHANGED <<matchActions, statusCall, profiles, otherHistory, playCount, lastHour,
                    genreWeight, pending, drainQueue, drain, listenJobs, ledger, cache, request>>

\* A variant of the refresh handler that deletes the song list only.
RefreshSongsKey(userId, fault) ==
  LET exchange == [NoExchange EXCEPT !.route = "refresh", !.userId = userId, !.fault = fault,
                                     !.status = Ok]
  IN /\ IF fault = "none"
          THEN /\ recCache' = [recCache EXCEPT ![userId].songs = NoRecs]
               /\ rec' = exchange
          ELSE /\ UNCHANGED recCache
               /\ rec' = [exchange EXCEPT !.status = ServerError]
     /\ hist' = [hist EXCEPT !.calls = @ + 1]
     /\ UNCHANGED <<matchActions, statusCall, profiles, otherHistory, playCount, lastHour,
                    genreWeight, pending, drainQueue, drain, listenJobs, ledger, cache, request>>

\* GET /api/recommendations/refresh: the two keys of the user are deleted, one
\* command after the other.  Of the faults, "cache get" is a throw of the first
\* Redis command of the handler and "cache set" a throw of the second, which
\* leaves the song list deleted and the user list in place.  hist.refreshed keeps
\* the users whose refresh deleted a stored list.
Refresh(userId, fault) ==
  LET exchange == [NoExchange EXCEPT !.route = "refresh", !.userId = userId, !.fault = fault,
                                     !.status = Ok]
      held == recCache[userId].songs.present \/ recCache[userId].users.present
  IN /\ IF fault = "none"
          THEN /\ recCache' = [recCache EXCEPT ![userId] = [songs |-> NoRecs, users |-> NoRecs]]
               /\ rec' = exchange
               /\ hist' = [hist EXCEPT !.calls = @ + 1,
                                       !.refreshed = IF held THEN @ \cup {userId} ELSE @]
          ELSE IF fault = "cache get"
          THEN /\ UNCHANGED recCache
               /\ rec' = [exchange EXCEPT !.status = ServerError]
               /\ hist' = [hist EXCEPT !.calls = @ + 1]
          ELSE /\ recCache' = [recCache EXCEPT ![userId].songs = NoRecs]
               /\ rec' = [exchange EXCEPT !.status = ServerError]
               /\ hist' = [hist EXCEPT !.calls = @ + 1]
     /\ UNCHANGED <<matchActions, statusCall, profiles, otherHistory, playCount, lastHour,
                    genreWeight, pending, drainQueue, drain, listenJobs, ledger, cache, request>>

(***************************************************************************)
(* The system.                                                             *)
(***************************************************************************)
SpecSongs == {1, 2}
SpecDurations == {30}

Next ==
  \/ \E def \in {1, 2}, u \in Users, s \in SpecSongs, d \in SpecDurations, h \in Hours :
       hist.calls < MaxCalls /\ ListenRecord(def, u, s, d, h)
  \/ \E j \in 1..MaxInFlight : ListenSadd(j)
  \/ \E j \in 1..MaxInFlight : ListenEnqueue(j)
  \/ \E j \in 1..MaxInFlight : ListenReturn(j)
  \/ \E u \in Users, gs \in SUBSET Genres :
       hist.calls < MaxCalls /\ UpdatePreferences(u, gs)
  \/ \E u \in Users : hist.calls < MaxCalls /\ QueueForRecalculation(u)
  \/ hist.calls < MaxCalls /\ FlushCache
  \/ DrainStart
  \/ \E u \in Users : DrainQuery(u)
  \/ \E u \in Users : DrainQueryThrows(u)
  \/ \E c \in Users, o \in {"ok", "store", "cache"} : DrainScore(c, o)
  \/ DrainRemove
  \/ DrainReturn
  \/ \E u \in Users, m \in MinScores : hist.calls < MaxCalls /\ RequestStart(u, m, 0)
  \/ \E c \in Users : RequestScore(c)
  \/ RequestReturn

Spec == Init /\ [][Next]_vars

(***************************************************************************)
(* The scorer over all signal states: the second listenWorker definition   *)
(* (history and profile only) and the preference route build the signals.  *)
(***************************************************************************)
MaxScoreCalls == 4
ScoreUsers == {1, 2}
ScoreSongs == {1, 2, 3}
ScoreDurations == {0, 15, 60}

NextScore ==
  \/ \E u \in ScoreUsers, s \in ScoreSongs, d \in ScoreDurations, h \in Hours :
       hist.calls < MaxScoreCalls /\ ListenRecord(2, u, s, d, h)
  \/ \E j \in 1..MaxInFlight : ListenReturn(j)
  \/ \E u \in ScoreUsers, gs \in SUBSET Genres :
       hist.calls < MaxScoreCalls /\ UpdatePreferences(u, gs)

SpecScore == Init /\ [][NextScore]_vars

(***************************************************************************)
(* The new-user test over listen histories.                                *)
(***************************************************************************)
MaxNewUserEvents == 5
NewUserUsers == {1, 2}

NextNewUser ==
  \/ \E def \in {1, 2}, u \in NewUserUsers, s \in Songs :
       hist.calls < MaxNewUserEvents /\ ListenRecord(def, u, s, 30, 9)
  \/ \E j \in 1..MaxInFlight : ListenSadd(j)
  \/ \E j \in 1..MaxInFlight : ListenEnqueue(j)
  \/ \E j \in 1..MaxInFlight : ListenReturn(j)

SpecNewUser == Init /\ [][NextNewUser]_vars

(***************************************************************************)
(* Match statuses under recalculation: listens and drains of users 1 and   *)
(* 2, interactive requests, and the two users' actions on their match.     *)
(***************************************************************************)
MaxStatusCalls == 4
StatusUsers == {1, 2}

NextStatus ==
  \/ \E u \in StatusUsers : hist.calls < MaxStatusCalls /\ ListenRecord(1, u, 1, 30, 9)
  \/ \E j \in 1..MaxInFlight : ListenSadd(j)
  \/ \E j \in 1..MaxInFlight : ListenEnqueue(j)
  \/ DrainStart
  \/ \E u \in Users : DrainQuery(u)
  \/ \E c \in Users : DrainScore(c, "ok")
  \/ DrainRemove
  \/ DrainReturn
  \/ \E u \in StatusUsers : hist.calls < MaxStatusCalls /\ RequestStart(u, 1, 0)
  \/ \E c \in Users : RequestScore(c)
  \/ RequestReturn
  \/ \E u \in StatusUsers, a \in MatchActions :
       hist.calls < MaxStatusCalls /\ UpdateStatusRead(u, <<1, 2>>, a)
  \/ \E u \in StatusUsers : UpdateStatusWrite(u)

SpecStatus == Init /\ [][NextStatus]_vars

(***************************************************************************)
(* A user without a stored location: user 3 has a preference row and no    *)
(* row in user_locations, listens, and asks for matches.                   *)
(***************************************************************************)
MaxLocationCalls == 3
LocationUsers == {1, 3}
LocationTable == [UserTable EXCEPT ![3].has_location = FALSE]

InitLocation == InitWith(LocationTable)

NextLocation ==
  \/ \E u \in LocationUsers : hist.calls < MaxLocationCalls /\ ListenRecord(1, u, 1, 30, 9)
  \/ \E j \in 1..MaxInFlight : ListenSadd(j)
  \/ \E j \in 1..MaxInFlight : ListenEnqueue(j)
  \/ DrainStart
  \/ \E u \in Users : DrainQuery(u)
  \/ \E c \in Users : DrainScore(c, "ok")
  \/ DrainRemove
  \/ DrainReturn
  \/ \E u \in LocationUsers, m \in MinScores :
       hist.calls < MaxLocationCalls /\ RequestStart(u, m, 0)
  \/ \E u \in LocationUsers : hist.calls < MaxLocationCalls /\ RequestThrows(u)
  \/ \E c \in Users : RequestScore(c)
  \/ RequestReturn

SpecLocation == InitLocation /\ [][NextLocation]_vars

(***************************************************************************)
(* Song and user recommendations over stores of new and established users: *)
(* user 1 has heard nothing or all of Songs and may have named rock at     *)
(* onboarding, user 2 has heard nothing or songs 1 and 2.                  *)
(***************************************************************************)
MaxRecCalls == 2
RecUsers == {1, 2}
RecLimits == {2, 4}
RecHeard == {[u \in Users |-> IF u = 1 THEN h1 ELSE IF u = 2 THEN h2 ELSE {}] :
               h1 \in {{}, Songs}, h2 \in {{}, {1, 2}}}
RecSelected == {[u \in Users |-> IF u = 1 THEN g ELSE {}] : g \in {{}, {"rock"}}}

InitRec == \E heard \in RecHeard, selected \in RecSelected : InitTables(UserTable, heard, selected)

NextRec ==
  \/ \E u \in RecUsers, limit \in RecLimits, trending \in CatalogAnswers, fault \in Faults :
       hist.calls < MaxRecCalls /\ GetSongs(u, limit, trending, fault)
  \/ \E u \in RecUsers, limit \in RecLimits, catalog \in Catalogs, fault \in Faults :
       hist.calls < MaxRecCalls /\ GetRecommendationsSongs(u, limit, catalog, fault)
  \/ \E u \in RecUsers, fault \in Faults :
       hist.calls < MaxRecCalls /\ GetUsers(u, 10, fault)
  \/ \E u \in RecUsers, fault \in {"none", "cache get"} :
       hist.calls < MaxRecCalls /\ Refresh(u, fault)

SpecRec == InitRec /\ [][NextRec]_vars

(***************************************************************************)
(* Song recommendations for a user with a long history: user 1 has heard   *)
(* the songs of Songs, or these and as many further songs as make one row  *)
(* more than getUserHistory reads.                                         *)
(***************************************************************************)
MaxPadCalls == 3
PadLimits == {1, 2}
OtherSongs == {s \in 1..(HistoryLimit + 1) : s \notin Songs}
PadHeard == {[u \in Users |-> IF u = 1 THEN h1 ELSE IF u = 2 THEN h2 ELSE {}] :
               h1 \in {Songs, Songs \cup OtherSongs}, h2 \in {{}, {1, 2}}}

InitPad == \E heard \in PadHeard : InitTables(UserTable, heard, Nothing)

NextPad ==
  \/ \E limit \in PadLimits : hist.calls < MaxPadCalls /\ GetSongs(1, limit, NoAnswer, "none")
  \/ hist.calls < MaxPadCalls /\ Refresh(1, "none")

SpecPad == InitPad /\ [][NextPad]_vars

(***************************************************************************)
(* Reads and refreshes of the two recommendation lists by users 1 and 2,   *)
(* with and without a Redis command that throws.                           *)
(***************************************************************************)
MaxRefreshCalls == 4
RefreshHeard == {[u \in Users |-> IF u = 1 THEN h1 ELSE {}] : h1 \in {{}, Songs}}

InitRefresh == \E heard \in RefreshHeard : InitTables(UserTable, heard, Nothing)

NextRefresh ==
  \/ \E u \in RecUsers, fault \in {"none", "cache set"} :
       hist.calls < MaxRefreshCalls /\ GetSongs(u, 2, NoAnswer, fault)
  \/ \E u \in RecUsers, fault \in {"none", "cache get"} :
       hist.calls < MaxRefreshCalls /\ GetUsers(u, 10, fault)
  \/ \E u \in RecUsers, fault \in {"none", "cache get", "cache set"} :
       hist.calls < MaxRefreshCalls /\ Refresh(u, fault)

SpecRefresh == InitRefresh /\ [][NextRefresh]_vars

(***************************************************************************)
(* Preference weights of user 1 under explicit selections and listen       *)
(* events.  POST /listen accepts every numeric duration; the durations     *)
(* here are multiples of 30 s, so that every stored weight is a whole      *)
(* number and differs from NoRow.                                          *)
(***************************************************************************)
MaxWeightCalls == 3
WeightDurations == {-30, 0, 30, 60}

NextWeight ==
  \/ \E def \in {1, 2}, s \in {1, 2, 3}, d \in WeightDurations :
       hist.calls < MaxWeightCalls /\ ListenRecord(def, 1, s, d, 9)
  \/ \E j \in 1..MaxInFlight : ListenSadd(j)
  \/ \E j \in 1..MaxInFlight : ListenEnqueue(j)
  \/ \E j \in 1..MaxInFlight : ListenReturn(j)
  \/ \E gs \in SUBSET Genres : hist.calls < MaxWeightCalls /\ UpdatePreferences(1, gs)

SpecWeight == Init /\ [][NextWeight]_vars

(***************************************************************************)
(* Candidate filtering for a user without a row in user_preferences:       *)
(* user 1 has a stored location and no preference row, users 2 and 3 have  *)
(* both and are visible.                                                   *)
(***************************************************************************)
MaxPrefsCalls == 3
PrefsUsers == {1, 2}
PrefsTable == [UserTable EXCEPT ![1].has_prefs = FALSE, ![1].preferred_gender = "any",
                                ![1].min_age = NoRow, ![1].max_age = NoRow,
                                ![1].max_distance = NoRow, ![3].is_visible = TRUE]

InitPrefs == InitWith(PrefsTable)

NextPrefs ==
  \/ \E u \in PrefsUsers : hist.calls < MaxPrefsCalls /\ ListenRecord(1, u, 1, 30, 9)
  \/ \E j \in 1..MaxInFlight : ListenSadd(j)
  \/ \E j \in 1..MaxInFlight : ListenEnqueue(j)
  \/ DrainStart
  \/ \E u \in Users : DrainQuery(u)
  \/ \E c \in Users : DrainScore(c, "ok")
  \/ DrainRemove
  \/ DrainReturn
  \/ \E u \in PrefsUsers, m \in MinScores :
       hist.calls < MaxPrefsCalls /\ RequestStart(u, m, 0)
  \/ \E u \in PrefsUsers : hist.calls < MaxPrefsCalls /\ RequestThrows(u)
  \/ \E c \in Users : RequestScore(c)
  \/ RequestReturn

SpecPrefs == InitPrefs /\ [][NextPrefs]_vars

(***************************************************************************)
(* Listen events of song 1 by the three users, with jobs that throw after  *)
(* the history write and are tried again by the queue.                     *)
(***************************************************************************)
MaxListenCalls == 3

NextListen ==
  \/ \E def \in {1, 2}, u \in Users, d \in {0, 30} :
       hist.calls < MaxListenCalls /\ ListenRecord(def, u, 1, d, 9)
  \/ \E j \in 1..MaxInFlight : ListenSadd(j)
  \/ \E j \in 1..MaxInFlight : ListenEnqueue(j)
  \/ \E j \in 1..MaxInFlight : ListenThrows(j)
  \/ \E j \in 1..MaxInFlight : ListenRetry(j)
  \/ \E j \in 1..MaxInFlight : ListenReturn(j)

SpecListen == Init /\ [][NextListen]_vars

(***************************************************************************)
(* Drain jobs whose read of the pending set throws, and their further      *)
(* attempts, among listen events of users 1 and 2.                         *)
(***************************************************************************)
MaxRetryCalls == 2

NextRetry ==
  \/ \E u \in {1, 2} : hist.calls < MaxRetryCalls /\ ListenRecord(1, u, 1, 30, 9)
  \/ \E j \in 1..MaxInFlight : ListenSadd(j)
  \/ \E j \in 1..MaxInFlight : ListenEnqueue(j)
  \/ DrainStart
  \/ DrainThrows
  \/ DrainRetry
  \/ \E u \in Users : DrainQuery(u)
  \/ \E c \in Users : DrainScore(c, "ok")
  \/ DrainRemove
  \/ DrainReturn

SpecRetry == Init /\ [][NextRetry]_vars

(***************************************************************************)
(* Drains in which a candidate's scoring or a user's candidate query       *)
(* throws: all three users are visible, so users 1 and 2 have two          *)
(* candidates each.                                                        *)
(***************************************************************************)
MaxFailCalls == 2

NextFail ==
  \/ \E u \in {1, 2} : hist.calls < MaxFailCalls /\ ListenRecord(1, u, 1, 30, 9)
  \/ \E j \in 1..MaxInFlight : ListenSadd(j)
  \/ \E j \in 1..MaxInFlight : ListenEnqueue(j)
  \/ DrainStart
  \/ \E u \in Users : DrainQuery(u)
  \/ \E u \in Users : DrainQueryThrows(u)
  \/ \E c \in Users, outcome \in {"ok", "store", "cache"} : DrainScore(c, outcome)
  \/ DrainRemove
  \/ DrainReturn

InitFail == InitWith([UserTable EXCEPT ![3].is_visible = TRUE])

SpecFail == InitFail /\ [][NextFail]_vars

(***************************************************************************)
(* Song recommendation requests of user 1 among listen events of user 1:   *)
(* the first listenWorker definition records the listen and deletes the    *)
(* user's recommendation keys.                                             *)
(***************************************************************************)
MaxStaleCalls == 3

NextStale ==
  \/ \E s \in {1, 2} : hist.calls < MaxStaleCalls /\ ListenRecord(1, 1, s, 30, 9)
  \/ \E j \in 1..MaxInFlight : ListenSadd(j)
  \/ \E j \in 1..MaxInFlight : ListenEnqueue(j)
  \/ hist.calls < MaxStaleCalls /\ GetSongsRead(1, 2)
  \/ GetSongsStore

SpecStale == Init /\ [][NextStale]_vars

(***************************************************************************)
(* The ranking of Match.getPotentialMatches: all three users are visible,  *)
(* so user 1 has the candidates 2 (10 km) and 3 (30 km); the listening     *)
(* histories, and with them the scores, vary.                              *)
(***************************************************************************)
MaxRankCalls == 2
RankTable == [UserTable EXCEPT ![3].is_visible = TRUE]
RankHeard == {[u \in Users |-> IF u = 1 THEN {1, 2} ELSE IF u = 2 THEN h2 ELSE h3] :
                h2 \in {{1}, {1, 2}, {4}}, h3 \in {{1, 2}, {2}, {5}}}
RankMinScores == {0, 1, 30}
RankLimits == {0, 1, 2}

InitRank == \E heard \in RankHeard : InitTables(RankTable, heard, Nothing)

NextRank ==
  \/ \E u \in Users, m \in RankMinScores, l \in RankLimits :
       hist.calls < MaxRankCalls /\ RequestStart(u, m, l)
  \/ \E c \in Users : RequestScore(c)
  \/ RequestReturn

SpecRank == InitRank /\ [][NextRank]_vars

(***************************************************************************)
(* The candidate filter over preference rows: user 1 asks with every       *)
(* combination of a preferred gender, age bounds (NULL, or a value the     *)
(* preference route accepts) and a maximum distance; user 2 is 10 km away, *)
(* user 3 is 30 km away and visible or not.                                *)
(***************************************************************************)
MaxFilterCalls == 2
FilterTables ==
  {[UserTable EXCEPT ![1].preferred_gender = g, ![1].min_age = lo, ![1].max_age = hi,
                     ![1].max_distance = d, ![3].is_visible = v] :
     g \in {"any", "m"}, lo \in {NoRow, 18, 35}, hi \in {NoRow, 0, 35, 100},
     d \in {NoRow, 10, 100}, v \in BOOLEAN}

InitFilter == \E table \in FilterTables : InitWith(table)

NextFilter ==
  \/ hist.calls < MaxFilterCalls /\ ListenRecord(1, 1, 1, 30, 9)
  \/ \E j \in 1..MaxInFlight : ListenSadd(j)
  \/ \E j \in 1..MaxInFlight : ListenEnqueue(j)
  \/ DrainStart
  \/ \E u \in Users : DrainQuery(u)
  \/ \E c \in Users : DrainScore(c, "ok")
  \/ DrainRemove
  \/ DrainReturn
  \/ hist.calls < MaxFilterCalls /\ RequestStart(1, 1, 0)
  \/ \E c \in Users : RequestScore(c)
  \/ RequestReturn

SpecFilter == InitFilter /\ [][NextFilter]_vars

(***************************************************************************)
(* Properties.                                                             *)
(***************************************************************************)
MaxScore == 100 * PointScale

CachedScores == {ParseFloat(cache[k].value) : k \in {x \in Users \X Users : cache[x] # NoEntry}}

\* C1: every score written to the matches ledger and to the score cache lies
\* in [0, 100].
ScoresBounded ==
  /\ \A r \in ledger : r.match_score >= 0 /\ r.match_score <= MaxScore
  /\ \A v \in CachedScores : v >= 0 /\ v <= MaxScore

\* C2: when the drain job has visited every user of its snapshot, each user
\* for whom the scoring or storing of some candidate failed is still in
\* match:recalculate.
FailedUsersStayPending ==
  (drain.pc = "user" /\ drain.todo = {}) => drain.failedUsers \subseteq pending

\* C3: a score-cache entry that Match.getPotentialMatches would read for
\* (user, candidate), written from the signals as they are now, holds the
\* value the same call computes on a cache miss.
CacheTransparent ==
  \A k \in Users \X Users :
    (cache[k] # NoEntry /\ cache[k].fresh /\ k[2] \in ModelCandidates(k[1]))
      => ParseFloat(cache[k].value) = ModelCalculateMatchScore(k[1], k[2])

\* C4: the matches ledger holds at most one row per unordered pair of users,
\* and every row has user_id_1 < user_id_2.
LedgerCanonical ==
  /\ \A r \in ledger : r.user_id_1 < r.user_id_2
  /\ \A r1, r2 \in ledger :
       {r1.user_id_1, r1.user_id_2} = {r2.user_id_1, r2.user_id_2} => r1 = r2

\* C4 witness: a score was stored for (1, 2) and for (2, 1), and the pair has its row
BothOrdersStored ==
  /\ {<<1, 2>>, <<2, 1>>} \subseteq hist.stores
  /\ \E r \in ledger : r.user_id_1 = 1 /\ r.user_id_2 = 2

Quiescent ==
  /\ drainQueue = 0
  /\ drain.pc = "idle"
  /\ \A j \in 1..MaxInFlight : listenJobs[j] = NoJob

\* C5: when a user was marked pending twice by the listen worker before the
\* first drain job read the set, was not marked again later, and no query or
\* Redis call threw, then once every drain job has run exactly one of them
\* has recomputed the user.
CoalescedRecompute ==
  \A u \in Users :
    (Quiescent /\ hist.notified[u] = 2 /\ u \notin hist.late /\ hist.failures = 0)
      => hist.recomputed[u] = 1

\* C5 witness: two notifications of user 1, two drain jobs run, one recomputation
CoalescedTwice ==
  /\ Quiescent
  /\ hist.notified[1] = 2
  /\ 1 \notin hist.late
  /\ hist.failures = 0
  /\ hist.drainsStarted = 2
  /\ hist.recomputed[1] = 1
  /\ 1 \notin pending

\* a listen job of user u returns, or a preference update of u commits
SignalChangeCompletes(u) ==
  \/ \E j \in 1..MaxInFlight :
       listenJobs[j].userId = u /\ listenJobs[j].pc # "none" /\ listenJobs'[j].pc = "none"
  \/ genreWeight'[u] # genreWeight[u] /\ listenJobs' = listenJobs

\* C6: every operation that changes a user's signals leaves the user in
\* match:recalculate when it completes.
SignalChangeLeavesPending ==
  [][\A u \in Users : SignalChangeCompletes(u) => u \in pending']_vars

\* C7: whenever a user id enters match:recalculate, a drain job is waiting or
\* is being enqueued by the call that added the id.
PendingHasDrainJob ==
  [][\A u \in Users :
       (u \notin pending /\ u \in pending')
         => \/ drainQueue' > 0
            \/ \E j \in 1..MaxInFlight :
                 listenJobs'[j].userId = u /\ listenJobs'[j].pc = "enqueue"]_vars

\* C8: for every two users, each of the five components has the same value
\* for (a, b) and for (b, a), and so have the score that Match.calculateMatchScore
\* returns and the rounded score that the worker's calculateMatchScore returns.
ScoreSymmetric ==
  \A a, b \in Users : a < b =>
    LET ab == ComponentScores(a, b)
        ba == ComponentScores(b, a)
    IN /\ ab.songs = ba.songs
       /\ ab.artists = ba.artists
       /\ ab.genres = ba.genres
       /\ ab.patterns = ba.patterns
       /\ ab.years = ba.years
       /\ Finalize(ab) = Finalize(ba)
       /\ RoundOneDecimal(Finalize(ab)) = RoundOneDecimal(Finalize(ba))

\* C8 witness: users 1 and 2 with different histories and total plays, a shared
\* artist and a positive value in each of the five components
SymmetricScoreOfUnequalUsers ==
  /\ TotalPlayCount(1) # TotalPlayCount(2)
  /\ UserSongs(1) # UserSongs(2)
  /\ SongScore(1, 2) > 0
  /\ ArtistScore(1, 2) > 0
  /\ GenreScore(1, 2) > 0
  /\ PatternScore(1, 2) > 0
  /\ YearScore(1, 2) > 0
  /\ ModelCalculateMatchScore(1, 2) = ModelCalculateMatchScore(2, 1)

\* C9: every score-cache key has the smaller user id first.
CacheKeysCanonical ==
  \A k \in Users \X Users : cache[k] # NoEntry => k[1] < k[2]

\* C10: a user is new exactly when fewer than 5 of the user's listen events
\* were processed.
NewUserIffFewEvents ==
  \A u \in Users : IsNewUser(u) <=> hist.events[u] < NewUserThreshold

\* the pair of users of a matches row
PairOf(r) == <<r.user_id_1, r.user_id_2>>

\* C11: a step that is no step of updateStatus (a score store among them)
\* keeps every ledger row with its status, and a row it creates has status
\* pending.
StoreKeepsStatus ==
  [][statusCall' = statusCall =>
       /\ \A r \in ledger : \E n \in ledger' : PairOf(n) = PairOf(r) /\ n.status = r.status
       /\ \A n \in ledger' :
            (\A r \in ledger : PairOf(r) # PairOf(n)) => n.status = "pending"]_vars

\* C11 witness: the row of (1, 2) is matched and a score was stored for the pair
\* after it became matched
MatchedRowRescored ==
  /\ <<1, 2>> \in hist.rescored
  /\ \E r \in ledger : PairOf(r) = <<1, 2>> /\ r.status = "matched"

\* C12: wherever the candidate filter has produced a list that the caller goes on to
\* process as a result (the interactive request's loop, the drain's loop over the
\* candidates followed by the removal from match:recalculate), the requesting user
\* has a stored location.
LocationMissingFails ==
  /\ request.pc = "score" => profiles[request.userId].has_location
  /\ drain.pc = "score" => profiles[drain.userId].has_location

\* C13: a song-recommendation request is never answered with an error: whatever
\* failed while it was served, the response of either song route is a list.
SongsNeverAnError ==
  rec.route \in {"songs", "songs by id"} => rec.status = Ok

NewUserListTiered ==
  LET body == rec.body
      genres == PreferredGenres(rec.userId)
      available == IF rec.route = "songs"
                     THEN {s \in Songs : SongTable[s].genre \in genres}
                     ELSE Range(rec.catalog.genreSongs.songs)
  IN (/\ rec.route \in {"songs", "songs by id"}
      /\ rec.computed /\ rec.status = Ok /\ rec.fault = "none"
      /\ rec.newUser /\ genres # {})
     => /\ \A i, j \in DOMAIN body : i # j => body[i].id # body[j].id
        /\ Len(body) <= rec.limit
        /\ \A i \in DOMAIN body : body[i].tag \in {"genre-based", "popular", "random"}
        /\ 2 * Cardinality(available) >= rec.limit
             => \A i \in DOMAIN body : body[i].tag = "genre-based" /\ body[i].id \in available
        /\ (2 * Cardinality(available) < rec.limit /\ GetPopular(rec.limit, {}) # << >>)
             => \E i \in DOMAIN body : body[i].tag = "popular"

\* C16: the list computed for an established user has no song twice, at most limit
\* entries, and no song of the user's listening history.
EstablishedListExcludesHeard ==
  (rec.route = "songs" /\ rec.computed /\ rec.status = Ok /\ ~rec.newUser)
  => /\ \A i, j \in DOMAIN rec.body : i # j => rec.body[i].id # rec.body[j].id
     /\ Len(rec.body) <= rec.limit
     /\ \A i \in DOMAIN rec.body : rec.body[i].id \notin History(rec.userId)

\* C17: the list a finished Match.getPotentialMatches call returned holds only
\* candidates it scored at minScore or more, each with the adjusted score
\* 0.8 * score + 0.2 * 100 * max(0, 1 - distance / maxDistance) (in thousandths), in
\* non-increasing order of it, at most limit of them, and every scored candidate at
\* minScore or more that is missing has an adjusted score no higher than any entry's.
RankedResponse ==
  LET userId == request.userId
      response == request.response
      maxDistance == IF profiles[userId].max_distance \in {NoRow, 0}
                       THEN 100 ELSE profiles[userId].max_distance
      Adjusted(score, distance) ==
        8 * score + Max(0, (20000 * (maxDistance - distance)) \div maxDistance)
      returned == {response[i].userId : i \in DOMAIN response}
  IN (request.pc = "idle" /\ userId # 0 /\ request.error = "none")
     => /\ \A i \in DOMAIN response :
             /\ response[i].musicScore >= request.minScore * PointScale
             /\ <<response[i].userId, response[i].musicScore>> \in hist.obtained
             /\ response[i].score =
                  Adjusted(response[i].musicScore, Distance(userId, response[i].userId))
        /\ \A i, j \in DOMAIN response : i < j => response[i].score >= response[j].score
        /\ Len(response) <= request.limit
        /\ \A o \in hist.obtained :
             (o[2] >= request.minScore * PointScale /\ o[1] \notin returned)
               => \A i \in DOMAIN response :
                    Adjusted(o[2], Distance(userId, o[1])) <= response[i].score

\* a call with limit 1 returned one of two candidates that both reached minScore
RankingTruncated ==
  /\ request.pc = "idle" /\ request.userId = 1 /\ request.limit = 1
  /\ Len(request.response) = 1
  /\ \E o \in hist.obtained :
       /\ o[2] >= request.minScore * PointScale
       /\ o[1] # request.response[1].userId

\* C18: the rows either candidate query returns for user u are the users c other
\* than u whose visibility flag is true, whose gender is u's preferred gender unless
\* that is null, whose age lies in [min_age, max_age] of u (18 and 100 standing in
\* for NULL), and whose distance from u is at most u's max_distance (100 for NULL).
FilterIsConjunction ==
  [][LET Bound(value, default) == IF value = NoRow THEN default ELSE value
         Expected(u) ==
           {c \in Users \ {u} :
              /\ profiles[c].has_location /\ profiles[c].has_prefs
              /\ profiles[c].is_visible
              /\ profiles[u].preferred_gender \in {"any", profiles[c].gender}
              /\ profiles[c].age >= Bound(profiles[u].min_age, 18)
              /\ profiles[c].age <= Bound(profiles[u].max_age, 100)
              /\ Distance(u, c) <= Bound(profiles[u].max_distance, 100)}
     IN /\ (request.pc = "idle" /\ request'.pc = "score")
             => request'.matches = Expected(request'.userId)
        /\ (drain.pc = "user" /\ drain'.pc = "score")
             => drain'.matches = Expected(drain'.userId)]_vars

MarkSurvivesRemoval ==
  \A u \in Users : u \in hist.marked => u \in pending

\* C30: every answered list of GET /songs and GET /users has at most as many
\* entries as the limit of the request that it answers, also when it comes from
\* the user's cache.
ResponseWithinLimit ==
  (rec.route \in {"songs", "users"} /\ rec.status = Ok) => Len(rec.body) <= rec.limit

\* C29: in every step, a stored preference weight stays stored and does not
\* decrease, every stored weight is non-negative, and the weight of a genre that
\* the user selected explicitly is at least 5.
WeightsMonotone ==
  [][\A u \in Users, g \in Genres :
       /\ genreWeight[u][g] # NoRow =>
            genreWeight'[u][g] # NoRow /\ genreWeight'[u][g] >= genreWeight[u][g]
       /\ genreWeight'[u][g] # NoRow => genreWeight'[u][g] >= 0
       /\ <<u, g>> \in hist'.selected => genreWeight'[u][g] >= ExplicitWeight]_vars

\* C28: the candidates that a request or a drain turn goes on to score are the
\* nearest qualifying users, at most limit of them (the limit of the request in
\* the interactive path, 50 in the drain).
NearestCandidatesScored ==
  [][LET Nearest(u, scored, qualifying, limit) ==
           /\ scored \subseteq qualifying
           /\ Cardinality(scored) = Min(limit, Cardinality(qualifying))
           /\ \A a \in scored, b \in qualifying \ scored : Distance(u, a) <= Distance(u, b)
     IN /\ (request.pc = "idle" /\ request'.pc = "score") =>
             Nearest(request'.userId, request'.matches, ModelCandidates(request'.userId),
                     request'.limit)
        /\ (drain.pc = "user" /\ drain'.pc = "score") =>
             Nearest(drain'.userId, drain'.matches, WorkerCandidates(drain'.userId),
                     DrainLimit)]_vars

\* C27: for a user with a stored location and no preference row, a call of
\* getPotentialMatches does not throw and takes as candidates the users that pass
\* the filter with the defaults (any gender, age 18 to 100, distance up to 100 km),
\* and so does the drain's query for that user.
MissingPreferencesDefaulted ==
  [][\A u \in Users :
       (profiles[u].has_location /\ ~profiles[u].has_prefs) =>
         LET Expected == {c \in Users : Qualifies(u, c)}
         IN /\ (request.pc = "idle" /\ hist'.calls = hist.calls + 1
                  /\ request' # request /\ request'.userId = u) =>
                 /\ request'.error = "none"
                 /\ request'.pc = "score"
                 /\ request'.matches = Expected
            /\ (drain.pc = "user" /\ drain'.pc = "score" /\ drain'.userId = u) =>
                 drain'.matches = Expected]_vars

\* C26: the final score of a pair is the sum of its sub-scores over the sum of the
\* weights of the components that could be evaluated for the pair (both users
\* have songs; one of them has plays; both genre vectors, both hour vectors and
\* both decade vectors are non-zero), times 100.
NormalizedByEvaluated ==
  \A a, b \in Users : a # b =>
    LET c == ComponentScores(a, b)
        NonZero(D, v) == \E d \in D : v[d] # 0
        evaluated ==
          (IF UserSongs(a) # {} /\ UserSongs(b) # {} THEN SongMaxScore ELSE 0)
          + (IF TotalPlayCount(a) # 0 \/ TotalPlayCount(b) # 0 THEN ArtistMaxScore ELSE 0)
          + (IF NonZero(Genres, GenreVector(a)) /\ NonZero(Genres, GenreVector(b))
               THEN GenreMaxScore ELSE 0)
          + (IF NonZero(Hours, PatternVector(a)) /\ NonZero(Hours, PatternVector(b))
               THEN PatternMaxScore ELSE 0)
          + (IF NonZero(Decades, DecadeVector(a)) /\ NonZero(Decades, DecadeVector(b))
               THEN YearMaxScore ELSE 0)
        totalScore == c.songs + c.artists + c.genres + c.patterns + c.years
    IN FinalScore(a, b) = IF evaluated > 0 THEN (totalScore * 100) \div evaluated ELSE 0

\* C25: when no updateStatus call is in progress, a match whose two users both
\* have 'liked' as their recorded action has status 'matched'.
BothLikedIsMatched ==
  (\A u \in Users : statusCall[u].pc = "idle") =>
    \A r \in ledger :
      LET matchId == <<r.user_id_1, r.user_id_2>>
          Liked(u) == \E a \in ActionRows(matchActions, matchId, u) : a.status = "liked"
      IN (Liked(r.user_id_1) /\ Liked(r.user_id_2)) => r.status = "matched"

\* C24: the play count of a user's history row of song 1, the only song listened
\* to, is the number of the user's listen events that the worker took up, whether
\* or not a job threw after the history write and was tried again.
PlayCountIsEvents ==
  \A u \in Users : playCount[u][1] = hist.events[u]

\* C23: a drain job that throws has made fewer than 3 attempts when it waits for
\* another one, and after its third throw no attempt of it is left; an attempt
\* that throws changes neither the pending set nor a score; a further attempt
\* starts from the pending set as it is then, so it visits no user that was
\* removed and not marked again.
DrainRetriesBounded ==
  [][/\ drain'.attemptsMade < DrainAttempts
     /\ (hist'.failures = hist.failures + 1 /\ drain.pc = "idle") =>
          /\ pending' = pending
          /\ ledger' = ledger
          /\ cache' = cache
          /\ drain'.pc = "idle"
          /\ drain.attemptsMade = DrainAttempts - 1 =>
               (drain'.attemptsMade = 0 /\ drainQueue' = drainQueue)
     /\ (drain.pc = "idle" /\ drain.attemptsMade > 0 /\ hist'.failures = hist.failures
           /\ drain'.attemptsMade = 0) =>
          /\ drain'.todo = pending
          /\ pending' = pending]_vars

\* C23 witness: three attempts of a drain job threw, no attempt is left and the
\* users it was to process are still pending.
DrainJobFailed ==
  /\ hist.failures = DrainAttempts
  /\ hist.drainsStarted = 1
  /\ drain = IdleDrain
  /\ drainQueue = 0
  /\ pending = {1, 2}

\* C22: a step of a running drain in which something throws leaves the job
\* running with the rest of its work: after a candidate's failure the other
\* candidates of the user and the other users of the snapshot are still to do,
\* after a failed candidate query the other users are; a user's turn ends only
\* when each of the user's candidates was tried, and the job ends only when each
\* user of the snapshot had a turn, without a further attempt being asked for.
DrainSurvivesFailures ==
  [][/\ (hist'.failures = hist.failures + 1 /\ drain.pc = "score") =>
          /\ drain'.pc = "score"
          /\ drain'.userId = drain.userId
          /\ drain'.todo = drain.todo
          /\ \E c \in drain.matches : drain'.matches = drain.matches \ {c}
     /\ (hist'.failures = hist.failures + 1 /\ drain.pc = "user") =>
          /\ drain'.pc = "user"
          /\ \E u \in drain.todo : drain'.todo = drain.todo \ {u}
     /\ (drain.pc = "score" /\ drain'.pc # "score") =>
          (drain.matches = {} /\ drain'.pc = "user" /\ drain'.todo = drain.todo)
     /\ (drain.pc = "user" /\ drain'.pc = "idle") =>
          (drain.todo = {} /\ drain'.attemptsMade = drain.attemptsMade)]_vars

\* C22 witness: in the turn of a user with two candidates one candidate failed and
\* the other one was stored, and the turn of the other user of the snapshot
\* followed.
FailureThenProgress ==
  /\ hist.failures = 1
  /\ drain.pc = "score"
  /\ drain.failedUsers # {}
  /\ \A u \in drain.failedUsers :
       /\ u # drain.userId
       /\ Cardinality({c \in Users : <<u, c>> \in hist.stores}) = 1
       /\ hist.recomputed[u] = 1

\* C21: a song list in a user's cache was computed from a store that held at least
\* as many of the user's listen events as have completed their invalidation: no
\* list computed before a listen event stays cached once that event's
\* invalidation is done.
CachedListNotStale ==
  \A u \in Users :
    recCache[u].songs.present => hist.cachedFrom[u] >= hist.invalidated[u]

====
